---- MODULE Spec2Model ----
(***************************************************************************)
(* ic-cose canister: namespaces, settings and the archive of superseded    *)
(* payloads (ic_cose_canister/src/store.rs), behind the update and query   *)
(* endpoints of api_admin.rs, api_namespace.rs, api_setting.rs and         *)
(* api_cose.rs, and the delegations of api_identity.rs.                    *)
(*                                                                         *)
(* Principals and setting keys are byte strings, modelled as sequences of  *)
(* small naturals.  Option<T> is a sequence of length at most one.         *)
(* Timestamps and tags are written by the handlers but read by no decision *)
(* of the code and are left out of the records.                            *)
(***************************************************************************)
EXTENDS Integers, Sequences, FiniteSets, TLC

VARIABLES
    state,             \* STATE: the global managers
    NAMESPACES_STORE,  \* namespace name -> Namespace
    SETTINGS_STORE,    \* SettingPathKey at version 0 -> Setting
    PAYLOADS_STORE,    \* SettingPathKey at the archived version -> SettingArchived
    ret,               \* the last endpoint executed and its reply
    seen_version,      \* history: the highest version ever stored at a path
    live_at,           \* history: payload and dek the stored setting held at
                       \* each version since its creation
    awaiting,          \* key requests suspended at their await, permission
                       \* already checked, the oracle's answer not yet in
    SIGNATURES,        \* SignatureMap: the (seed, message) pairs it holds
    signed,            \* history: every (seed, pubkey, expiration) that
                       \* namespace_sign_delegation has added a signature for
    unwrapped,         \* history: the KEK each client has unwrapped from the
                       \* reply to its ecdh_cose_encrypted_key, with its path
    OBJECT_STATE,      \* STATE of the object store: managers, auditors,
                       \* locations (path -> (etag, completed)), next_etag
    OBJECT_META,       \* etag -> ObjectMetadata
    OBJECT_DATA,       \* etag -> the bytes of the object
    MULTIPART_UPLOAD,  \* etag -> the parts put so far
    INSTALL_LOGS,      \* the deployment log of the wasm store
    logs_call          \* the deployment_logs call in progress: its arguments,
                       \* idx and res, and where in its loop it stands (pc)

\* the tables of the settings canister but ret, of the object store and of
\* the wasm store
CoseVars ==
    <<state, NAMESPACES_STORE, SETTINGS_STORE, PAYLOADS_STORE, seen_version,
      live_at, awaiting, SIGNATURES, signed, unwrapped>>
ObjectVars == <<OBJECT_STATE, OBJECT_META, OBJECT_DATA, MULTIPART_UPLOAD>>
WasmVars == <<INSTALL_LOGS, logs_call>>

vars == <<state, NAMESPACES_STORE, SETTINGS_STORE, PAYLOADS_STORE, ret,
          seen_version, live_at, awaiting, SIGNATURES, signed, unwrapped,
          ObjectVars, WasmVars>>

----------------------------------------------------------------------------
(* Bounds of the model *)

\* u32::MAX of a setting's version, scaled down
U32_MAX == 2
\* u64::MAX of payload_bytes_total, scaled down
U64_MAX == 3
\* key requests that may be suspended at their await at the same time
MaxAwaiting == 1
\* requests of api_update.rs suspended together
MaxInFlight == 2

----------------------------------------------------------------------------
(* Constants of the program *)

MAX_PAYLOAD_SIZE == 2000000
MAX_DEK_SIZE == 3072
\* SettingPath::validate: the longest setting key
MAX_KEY_LEN == 64

----------------------------------------------------------------------------
(* Option<T> *)

None == << >>
Some(x) == <<x>>
is_some(o) == o # None
unwrap(o) == o[1]
unwrap_or(o, d) == IF o = None THEN d ELSE o[1]

Min(a, b) == IF a < b THEN a ELSE b

saturating_add(a, b, max) == Min(a + b, max)

----------------------------------------------------------------------------
(* Principals *)

management_canister == << >>
ANONYMOUS == <<4>>
p1 == <<1, 1>>
p2 == <<1, 2>>
p3 == <<1, 1, 1>>

\* lexicographic order of byte strings (Ord of ByteBuf / Vec<u8>)
RECURSIVE BytesLess(_, _)
BytesLess(a, b) ==
    IF b = << >> THEN FALSE
    ELSE IF a = << >> THEN TRUE
    ELSE IF a[1] # b[1] THEN a[1] < b[1]
    ELSE BytesLess(Tail(a), Tail(b))

\* Ord of Principal: the length first, then the bytes
PrincipalLess(a, b) ==
    \/ Len(a) < Len(b)
    \/ Len(a) = Len(b) /\ BytesLess(a, b)

\* Ord of String on the namespace names of the model
StrRank(s) == CASE s = "a" -> 1 [] s = "b" -> 2 [] OTHER -> 0
StrLess(a, b) == StrRank(a) < StrRank(b)

----------------------------------------------------------------------------
(* SettingPathKey: (namespace, scope, subject, key, version) *)

SettingPathKey(ns, scope, subject, key, version) == <<ns, scope, subject, key, version>>

\* derived Ord of the tuple struct: field by field
SpkLess(x, y) ==
    \/ StrLess(x[1], y[1])
    \/ x[1] = y[1] /\ x[2] < y[2]
    \/ x[1] = y[1] /\ x[2] = y[2] /\ PrincipalLess(x[3], y[3])
    \/ x[1] = y[1] /\ x[2] = y[2] /\ x[3] = y[3] /\ BytesLess(x[4], y[4])
    \/ x[1] = y[1] /\ x[2] = y[2] /\ x[3] = y[3] /\ x[4] = y[4] /\ x[5] < y[5]

\* path: [ns, user_owned, subject: Option<Principal>, key, version]
from_path(val, caller) ==
    SettingPathKey(val.ns, IF val.user_owned THEN 1 ELSE 0,
                   unwrap_or(val.subject, caller), val.key, val.version)

v0(spk) == SettingPathKey(spk[1], spk[2], spk[3], spk[4], 0)

----------------------------------------------------------------------------
(* Byte strings of payloads and deks: [id, len, fmt].  fmt says what the   *)
(* bytes parse as: "enc" a COSE_Encrypt0 item, "cbor" another CBOR value,  *)
(* "raw" no CBOR at all.                                                   *)

Bytes(id, len, fmt) == [id |-> id, len |-> len, fmt |-> fmt]

\* CoseEncrypt0::from_slice(skip_prefix(&ENCRYPT0_TAG, payload)) succeeds
try_decode_encrypt0(b) == b.fmt = "enc"

\* ciborium from_reader::<Value> succeeds (a COSE_Encrypt0 item is CBOR too)
try_decode_payload(b) == b.fmt \in {"enc", "cbor"}

----------------------------------------------------------------------------
(* Namespace permission predicates *)

\* can_write_namespace without the status
can_write_namespace_any_status(ns, caller) == caller \in ns.managers

can_write_namespace(ns, caller) ==
    ns.status < 1 /\ caller \in ns.managers

\* can_read_namespace without the archived case
can_read_namespace_users_always(ns, caller) ==
    IF ns.visibility = 1 THEN TRUE
    ELSE caller \in ns.managers \cup ns.auditors \cup ns.users

can_read_namespace(ns, caller) ==
    IF ns.visibility = 1 THEN TRUE
    ELSE IF ns.status < 0 THEN caller \in ns.managers \/ caller \in ns.auditors
    ELSE caller \in ns.managers \/ caller \in ns.auditors \/ caller \in ns.users

\* can_write_setting refusing only the read-only status
can_write_setting_while_archived(ns, caller, spk) ==
    IF ns.status > 0 THEN FALSE
    ELSE IF spk[2] = 0 THEN caller \in ns.managers
    ELSE caller \in ns.users /\ caller = spk[3]

\* can_write_setting without the comparison of the caller with the subject
can_write_setting_any_user(ns, caller, spk) ==
    IF ns.status # 0 THEN FALSE
    ELSE IF spk[2] = 0 THEN caller \in ns.managers
    ELSE caller \in ns.users

can_write_setting(ns, caller, spk) ==
    IF ns.status # 0 THEN FALSE
    ELSE IF spk[2] = 0 THEN caller \in ns.managers
    ELSE caller \in ns.users /\ caller = spk[3]

\* Option<bool>
\* partial_can_read_setting without the archived case
partial_can_read_setting_ignores_archived(ns, caller, spk) ==
    IF ns.visibility = 1 THEN Some(TRUE)
    ELSE IF caller \in ns.managers \/ caller \in ns.auditors \/ caller = spk[3]
         THEN Some(TRUE)
    ELSE None

partial_can_read_setting(ns, caller, spk) ==
    IF ns.visibility = 1 THEN Some(TRUE)
    ELSE IF ns.status < 0
         THEN Some(caller \in ns.managers \/ caller \in ns.auditors)
    ELSE IF caller \in ns.managers \/ caller \in ns.auditors \/ caller = spk[3]
         THEN Some(TRUE)
    ELSE None

----------------------------------------------------------------------------
(* Tables: StableBTreeMap as a function on the set of its keys *)

contains_key(m, k) == k \in DOMAIN m
insert(m, k, v) == [x \in (DOMAIN m) \cup {k} |-> IF x = k THEN v ELSE m[x]]
remove(m, k) == [x \in (DOMAIN m) \ {k} |-> m[x]]
RemoveAll(m, ks) == [x \in (DOMAIN m) \ ks |-> m[x]]

Setting(status, version, readers, payload, dek) ==
    [status |-> status, version |-> version, readers |-> readers,
     payload |-> payload, dek |-> dek]

SettingArchived(deprecated, payload, dek) ==
    [deprecated |-> deprecated, payload |-> payload, dek |-> dek]

\* what a handler returns besides ok/err: the version, payload and dek of
\* SettingInfo, SettingArchivedPayload, CreateSettingOutput
Out(version, payload, dek) == [version |-> version, payload |-> payload, dek |-> dek]
NoOut == Out(0, None, None)

\* Result of a store call, with the tables as the call leaves them
Ok(NS, SS, PS, out) ==
    [ok |-> TRUE, err |-> "", ns |-> NS, ss |-> SS, ps |-> PS, out |-> out]
Err(e) ==
    [ok |-> FALSE, err |-> e, ns |-> NAMESPACES_STORE, ss |-> SETTINGS_STORE,
     ps |-> PAYLOADS_STORE, out |-> NoOut]

----------------------------------------------------------------------------
(* Input validation of the endpoints *)

\* the namespace names of the model are valid keys
SettingPath_validate(path) == Len(path.key) <= MAX_KEY_LEN

CreateSettingInput_validate(input) ==
    /\ is_some(input.status) => unwrap(input.status) \in 0..1
    /\ is_some(input.dek) => unwrap(input.dek).len <= MAX_DEK_SIZE

UpdateSettingInfoInput_validate(input) ==
    is_some(input.status) => unwrap(input.status) \in -1..1

UpdateSettingPayloadInput_validate(input) ==
    /\ is_some(input.status) => unwrap(input.status) \in -1..1
    /\ ~(input.payload = None /\ input.dek = None)
    /\ is_some(input.dek) => unwrap(input.dek).len <= MAX_DEK_SIZE

validate_principals(principals) ==
    principals # {} /\ ANONYMOUS \notin principals

is_authenticated(caller) == caller # ANONYMOUS

\* state::allowed_api: an empty allow-list allows every API
allowed_api(api) == state.allowed_apis = {} \/ api \in state.allowed_apis

----------------------------------------------------------------------------
(* ns::create_setting *)

\* the byte count added to payload_bytes_total, None when a decode fails
create_setting_size(ns, input) ==
    IF is_some(input.dek)
    THEN IF ~try_decode_encrypt0(unwrap(input.dek)) THEN None
         ELSE IF is_some(input.payload)
              THEN IF ~try_decode_encrypt0(unwrap(input.payload)) THEN None
                   ELSE Some(unwrap(input.payload).len + unwrap(input.dek).len)
              ELSE Some(unwrap(input.dek).len)
    ELSE IF is_some(input.payload)
         THEN IF ~try_decode_payload(unwrap(input.payload)) THEN None
              ELSE Some(unwrap(input.payload).len)
         ELSE Some(0)

\* create_setting without the look-up of the path in the settings table
create_setting_overwrites(caller, spk, input) ==
    IF ~contains_key(NAMESPACES_STORE, spk[1]) THEN Err("namespace not found")
    ELSE LET ns == NAMESPACES_STORE[spk[1]]
             size == create_setting_size(ns, input)
         IN IF ~can_write_setting(ns, caller, spk) THEN Err("no permission")
            ELSE IF spk[5] # 0 THEN Err("version mismatch")
            ELSE IF is_some(input.payload) /\ unwrap(input.payload).len > ns.max_payload_size
                 THEN Err("payload size exceeds the limit")
            ELSE IF size = None THEN Err("invalid encoding")
            ELSE Ok(insert(NAMESPACES_STORE, spk[1],
                           [ns EXCEPT !.payload_bytes_total =
                               saturating_add(@, unwrap(size), U64_MAX)]),
                    insert(SETTINGS_STORE, spk,
                           Setting(unwrap_or(input.status, 0), 1, {},
                                   input.payload, input.dek)),
                    PAYLOADS_STORE,
                    Out(1, None, None))

create_setting(caller, spk, input) ==
    IF ~contains_key(NAMESPACES_STORE, spk[1]) THEN Err("namespace not found")
    ELSE LET ns == NAMESPACES_STORE[spk[1]]
             size == create_setting_size(ns, input)
         IN IF ~can_write_setting(ns, caller, spk) THEN Err("no permission")
            ELSE IF spk[5] # 0 THEN Err("version mismatch")
            ELSE IF is_some(input.payload) /\ unwrap(input.payload).len > ns.max_payload_size
                 THEN Err("payload size exceeds the limit")
            ELSE IF size = None THEN Err("invalid encoding")
            ELSE IF contains_key(SETTINGS_STORE, spk) THEN Err("setting already exists")
            ELSE Ok(insert(NAMESPACES_STORE, spk[1],
                           [ns EXCEPT !.payload_bytes_total =
                               saturating_add(@, unwrap(size), U64_MAX)]),
                    insert(SETTINGS_STORE, spk,
                           Setting(unwrap_or(input.status, 0), 1, {},
                                   input.payload, input.dek)),
                    PAYLOADS_STORE,
                    Out(1, None, None))

----------------------------------------------------------------------------
(* ns::with_setting_mut, ns::update_setting_info, readers *)

\* version_matches without the comparison
version_matches_skipped(setting, spk) == TRUE

version_matches(setting, spk) == setting.version = spk[5]

\* is_readonly with status 1 taken for writable
is_readonly_off_by_one(setting) == setting.status > 1

is_readonly(setting) == setting.status >= 1

\* updated is the stored setting as the closure leaves it; it is read only
\* once the checks have passed
with_setting_mut(caller, spk, updated) ==
    IF ~contains_key(NAMESPACES_STORE, spk[1]) THEN Err("namespace not found")
    ELSE LET ns == NAMESPACES_STORE[spk[1]]
             spkv0 == v0(spk)
         IN IF ~can_write_setting(ns, caller, spk) THEN Err("no permission")
            ELSE IF ~contains_key(SETTINGS_STORE, spkv0) THEN Err("setting not found")
            ELSE LET setting == SETTINGS_STORE[spkv0]
                 IN IF ~version_matches(setting, spk) THEN Err("version mismatch")
                    ELSE IF is_readonly(setting)
                         THEN Err("readonly setting can not be updated")
                    ELSE Ok(NAMESPACES_STORE,
                            insert(SETTINGS_STORE, spkv0, updated),
                            PAYLOADS_STORE,
                            Out(setting.version, None, None))

\* update_setting_info counting the change as a new version
update_setting_info_bumping_version(caller, spk, input) ==
    with_setting_mut(caller, spk,
        [SETTINGS_STORE[v0(spk)] EXCEPT !.status = unwrap_or(input.status, @),
                                        !.version = Min(@ + 1, U32_MAX)])

update_setting_info(caller, spk, input) ==
    with_setting_mut(caller, spk,
        [SETTINGS_STORE[v0(spk)] EXCEPT !.status = unwrap_or(input.status, @)])

add_readers(caller, spk, input) ==
    with_setting_mut(caller, spk,
        [SETTINGS_STORE[v0(spk)] EXCEPT !.readers = @ \cup input])

remove_readers(caller, spk, input) ==
    with_setting_mut(caller, spk,
        [SETTINGS_STORE[v0(spk)] EXCEPT !.readers = @ \ input])

----------------------------------------------------------------------------
(* ns::delete_setting *)

\* delete_setting leaving the archive as it is
deleted_archive_keys_none(spk) == {}

\* the archive keys delete_setting removes: versions 1 .. spk.4 - 1
deleted_archive_keys(spk) ==
    {SettingPathKey(spk[1], spk[2], spk[3], spk[4], v) : v \in 1..(spk[5] - 1)}

delete_setting(caller, spk) ==
    IF ~contains_key(NAMESPACES_STORE, spk[1]) THEN Err("namespace not found")
    ELSE LET ns == NAMESPACES_STORE[spk[1]]
             spkv0 == v0(spk)
         IN IF ~can_write_setting(ns, caller, spk) THEN Err("no permission")
            ELSE IF ~contains_key(SETTINGS_STORE, spkv0) THEN Err("setting not found")
            ELSE LET setting == SETTINGS_STORE[spkv0]
                 IN IF ~version_matches(setting, spk) THEN Err("version mismatch")
                    ELSE IF is_readonly(setting)
                         THEN Err("readonly setting can not be deleted")
                    ELSE Ok(NAMESPACES_STORE,
                            remove(SETTINGS_STORE, spkv0),
                            RemoveAll(PAYLOADS_STORE, deleted_archive_keys(spk)),
                            NoOut)

----------------------------------------------------------------------------
(* ns::update_setting_payload *)

\* the payload check of an update: COSE_Encrypt0 when the stored setting or
\* the input carries a dek, CBOR otherwise; no check without a payload
update_payload_decodes(setting, input) ==
    IF is_some(setting.dek) \/ is_some(input.dek)
    THEN is_some(input.payload) => try_decode_encrypt0(unwrap(input.payload))
    ELSE is_some(input.payload) => try_decode_payload(unwrap(input.payload))

\* archive_current with the archive written after the setting is overwritten
archive_current_after_write(spk, setting, input) ==
    IF is_some(setting.payload)
    THEN insert(PAYLOADS_STORE, spk,
                SettingArchived(unwrap_or(input.deprecate_current, FALSE),
                                IF is_some(input.payload) THEN input.payload
                                ELSE setting.payload,
                                IF is_some(input.dek) THEN input.dek ELSE setting.dek))
    ELSE PAYLOADS_STORE

\* archive_current with the row keyed by the path at version 0
archive_current_at_v0(spk, setting, input) ==
    IF is_some(setting.payload)
    THEN insert(PAYLOADS_STORE, v0(spk),
                SettingArchived(unwrap_or(input.deprecate_current, FALSE),
                                Some(unwrap(setting.payload)), setting.dek))
    ELSE PAYLOADS_STORE

\* the superseded payload is archived under the path at its current version,
\* and only when the setting holds a payload
archive_current(spk, setting, input) ==
    IF is_some(setting.payload)
    THEN insert(PAYLOADS_STORE, spk,
                SettingArchived(unwrap_or(input.deprecate_current, FALSE),
                                Some(unwrap(setting.payload)), setting.dek))
    ELSE PAYLOADS_STORE

\* next_version without the increment
next_version_stuck(version) == version

next_version(version) == saturating_add(version, 1, U32_MAX)

updated_setting(setting, input) ==
    [setting EXCEPT !.version = next_version(@),
                    !.status = unwrap_or(input.status, @),
                    !.payload = IF is_some(input.payload) THEN input.payload ELSE @,
                    !.dek = IF is_some(input.dek) THEN input.dek ELSE @]

\* the size of an update counting the payload only
update_payload_size_without_dek(input) ==
    IF is_some(input.payload) THEN unwrap(input.payload).len ELSE 0

update_payload_size(input) ==
    (IF is_some(input.payload) THEN unwrap(input.payload).len ELSE 0)
    + (IF is_some(input.dek) THEN unwrap(input.dek).len ELSE 0)

\* update_setting_payload with the current payload archived before the
\* payload of the input is decoded
update_setting_payload_archives_first(caller, spk, input) ==
    IF ~contains_key(NAMESPACES_STORE, spk[1]) THEN Err("namespace not found")
    ELSE LET ns == NAMESPACES_STORE[spk[1]]
             spkv0 == v0(spk)
         IN IF ~can_write_setting(ns, caller, spk) THEN Err("no permission")
            ELSE IF is_some(input.payload) /\ unwrap(input.payload).len > ns.max_payload_size
                 THEN Err("payload size exceeds the limit")
            ELSE IF ~contains_key(SETTINGS_STORE, spkv0) THEN Err("setting not found")
            ELSE LET setting == SETTINGS_STORE[spkv0]
                     new == updated_setting(setting, input)
                 IN IF ~version_matches(setting, spk) THEN Err("version mismatch")
                    ELSE IF is_readonly(setting)
                         THEN Err("readonly setting can not be updated")
                    ELSE IF ~update_payload_decodes(setting, input)
                         THEN [Err("invalid encoding") EXCEPT
                                  !.ps = archive_current(spk, setting, input)]
                    ELSE Ok(insert(NAMESPACES_STORE, spk[1],
                                   [ns EXCEPT !.payload_bytes_total =
                                       saturating_add(@, update_payload_size(input), U64_MAX)]),
                            insert(SETTINGS_STORE, spkv0, new),
                            archive_current(spk, setting, input),
                            Out(new.version, None, None))

update_setting_payload(caller, spk, input) ==
    IF ~contains_key(NAMESPACES_STORE, spk[1]) THEN Err("namespace not found")
    ELSE LET ns == NAMESPACES_STORE[spk[1]]
             spkv0 == v0(spk)
         IN IF ~can_write_setting(ns, caller, spk) THEN Err("no permission")
            ELSE IF is_some(input.payload) /\ unwrap(input.payload).len > ns.max_payload_size
                 THEN Err("payload size exceeds the limit")
            ELSE IF ~contains_key(SETTINGS_STORE, spkv0) THEN Err("setting not found")
            ELSE LET setting == SETTINGS_STORE[spkv0]
                     new == updated_setting(setting, input)
                 IN IF ~version_matches(setting, spk) THEN Err("version mismatch")
                    ELSE IF is_readonly(setting)
                         THEN Err("readonly setting can not be updated")
                    ELSE IF ~update_payload_decodes(setting, input)
                         THEN Err("invalid encoding")
                    ELSE Ok(insert(NAMESPACES_STORE, spk[1],
                                   [ns EXCEPT !.payload_bytes_total =
                                       saturating_add(@, update_payload_size(input), U64_MAX)]),
                            insert(SETTINGS_STORE, spkv0, new),
                            archive_current(spk, setting, input),
                            Out(new.version, None, None))

----------------------------------------------------------------------------
(* ns::try_get_setting and the three getters *)

\* Option<Setting>
try_get_setting(caller, spk) ==
    IF ~contains_key(NAMESPACES_STORE, spk[1]) THEN None
    ELSE LET can == partial_can_read_setting(NAMESPACES_STORE[spk[1]], caller, spk)
         IN IF can = Some(FALSE) THEN None
            ELSE IF ~contains_key(SETTINGS_STORE, v0(spk)) THEN None
            ELSE LET s == SETTINGS_STORE[v0(spk)]
                 IN IF spk[5] <= s.version /\ (can = Some(TRUE) \/ caller \in s.readers)
                    THEN Some(s) ELSE None

get_setting_info(caller, spk) ==
    LET setting == try_get_setting(caller, spk)
    IN IF setting = None THEN Err("setting not found or no permission")
       ELSE Ok(NAMESPACES_STORE, SETTINGS_STORE, PAYLOADS_STORE,
               Out(unwrap(setting).version, None, None))

\* get_setting without the comparison of the requested version
get_setting_any_version(caller, spk) ==
    LET setting == try_get_setting(caller, spk)
    IN IF setting = None THEN Err("setting not found or no permission")
       ELSE Ok(NAMESPACES_STORE, SETTINGS_STORE, PAYLOADS_STORE,
               Out(unwrap(setting).version, unwrap(setting).payload, unwrap(setting).dek))

get_setting(caller, spk) ==
    LET setting == try_get_setting(caller, spk)
    IN IF setting = None THEN Err("setting not found or no permission")
       ELSE IF spk[5] # 0 /\ spk[5] # unwrap(setting).version THEN Err("version mismatch")
       ELSE Ok(NAMESPACES_STORE, SETTINGS_STORE, PAYLOADS_STORE,
               Out(unwrap(setting).version, unwrap(setting).payload, unwrap(setting).dek))

\* the version window of the archive: 0 < spk.4 < setting.version
archived_version_ok(spk, setting) == ~(spk[5] = 0 \/ spk[5] >= setting.version)

get_setting_archived_payload(caller, spk) ==
    LET setting == try_get_setting(caller, spk)
    IN IF setting = None THEN Err("setting not found or no permission")
       ELSE IF ~archived_version_ok(spk, unwrap(setting)) THEN Err("version mismatch")
       ELSE IF ~contains_key(PAYLOADS_STORE, spk) THEN Err("setting payload not found")
       ELSE Ok(NAMESPACES_STORE, SETTINGS_STORE, PAYLOADS_STORE,
               Out(spk[5], PAYLOADS_STORE[spk].payload, PAYLOADS_STORE[spk].dek))

----------------------------------------------------------------------------
(* Namespaces *)

\* the default of session_expires_in_ms: one day
SESSION_EXPIRES_IN_MS == 86400000

\* create_namespace fills desc, max_payload_size, visibility, the member
\* sets and session_expires_in_ms; the other fields take their defaults
Namespace(status, visibility, managers, auditors, users, max_payload_size, desc, session_expires_in_ms) ==
    [status |-> status, visibility |-> visibility, managers |-> managers,
     auditors |-> auditors, users |-> users,
     max_payload_size |-> max_payload_size, payload_bytes_total |-> 0,
     fixed_id_names |-> << >>, desc |-> desc,
     session_expires_in_ms |-> session_expires_in_ms, gas_balance |-> 0]

CreateNamespaceInput_validate(input) ==
    /\ validate_principals(input.managers)
    /\ is_some(input.max_payload_size) =>
          /\ unwrap(input.max_payload_size) # 0
          /\ unwrap(input.max_payload_size) <= MAX_PAYLOAD_SIZE
    /\ input.visibility \in {0, 1}

UpdateNamespaceInput_validate(input) ==
    /\ is_some(input.max_payload_size) =>
          /\ unwrap(input.max_payload_size) # 0
          /\ unwrap(input.max_payload_size) <= MAX_PAYLOAD_SIZE
    /\ is_some(input.status) => unwrap(input.status) \in -1..1
    /\ is_some(input.visibility) => unwrap(input.visibility) \in {0, 1}

\* create_namespace without the check of the global managers
create_namespace_by_anyone(caller, input) ==
    IF contains_key(NAMESPACES_STORE, input.name) THEN Err("namespace already exists")
    ELSE Ok(insert(NAMESPACES_STORE, input.name,
                   Namespace(0, input.visibility, input.managers, input.auditors,
                             input.users,
                             unwrap_or(input.max_payload_size, MAX_PAYLOAD_SIZE),
                             unwrap_or(input.desc, ""),
                             unwrap_or(input.session_expires_in_ms,
                                       SESSION_EXPIRES_IN_MS))),
            SETTINGS_STORE, PAYLOADS_STORE, NoOut)

create_namespace(caller, input) ==
    IF caller \notin state.managers THEN Err("no permission")
    ELSE IF contains_key(NAMESPACES_STORE, input.name) THEN Err("namespace already exists")
    ELSE Ok(insert(NAMESPACES_STORE, input.name,
                   Namespace(0, input.visibility, input.managers, input.auditors,
                             input.users,
                             unwrap_or(input.max_payload_size, MAX_PAYLOAD_SIZE),
                             unwrap_or(input.desc, ""),
                             unwrap_or(input.session_expires_in_ms,
                                       SESSION_EXPIRES_IN_MS))),
            SETTINGS_STORE, PAYLOADS_STORE, NoOut)

\* ns::with_mut under the can_write_namespace check that every caller of it
\* makes; updated is the namespace as the closure leaves it, read only once
\* the checks have passed
with_mut(caller, namespace, updated) ==
    IF ~contains_key(NAMESPACES_STORE, namespace) THEN Err("namespace not found")
    ELSE LET ns == NAMESPACES_STORE[namespace]
         IN IF ~can_write_namespace(ns, caller) THEN Err("no permission")
            ELSE Ok(insert(NAMESPACES_STORE, namespace, updated),
                    SETTINGS_STORE, PAYLOADS_STORE, NoOut)

update_namespace_info(caller, input) ==
    with_mut(caller, input.name,
        [NAMESPACES_STORE[input.name] EXCEPT
            !.desc = unwrap_or(input.desc, @),
            !.max_payload_size = unwrap_or(input.max_payload_size, @),
            !.status = unwrap_or(input.status, @),
            !.visibility = unwrap_or(input.visibility, @),
            !.session_expires_in_ms = unwrap_or(input.session_expires_in_ms, @)])

\* the first key of the scan: (namespace, 0, anonymous, empty key, 0)
delete_namespace_start(namespace) ==
    SettingPathKey(namespace, 0, ANONYMOUS, << >>, 0)

\* keys_range(RangeFrom { start }).next().is_some()
range_from_nonempty(m, start) == \E k \in DOMAIN m : ~SpkLess(k, start)

\* delete_namespace asking only that the caller is a manager
delete_namespace_any_status(caller, namespace) ==
    IF ~contains_key(NAMESPACES_STORE, namespace) THEN Err("namespace not found")
    ELSE IF caller \notin NAMESPACES_STORE[namespace].managers THEN Err("no permission")
    ELSE IF range_from_nonempty(SETTINGS_STORE, delete_namespace_start(namespace))
         THEN Err("namespace is not empty")
    ELSE Ok(remove(NAMESPACES_STORE, namespace), SETTINGS_STORE, PAYLOADS_STORE, NoOut)

delete_namespace(caller, namespace) ==
    IF ~contains_key(NAMESPACES_STORE, namespace) THEN Err("namespace not found")
    ELSE LET ns == NAMESPACES_STORE[namespace]
         IN IF ~can_write_namespace(ns, caller) THEN Err("no permission")
            ELSE IF range_from_nonempty(SETTINGS_STORE, delete_namespace_start(namespace))
                 THEN Err("namespace is not empty")
            ELSE Ok(remove(NAMESPACES_STORE, namespace),
                    SETTINGS_STORE, PAYLOADS_STORE, NoOut)

\* the setting's readers, consulted last by has_kek_permission
kek_reader(caller, spk) ==
    /\ contains_key(SETTINGS_STORE, v0(spk))
    /\ caller \in SETTINGS_STORE[v0(spk)].readers

\* has_kek_permission without the archived case
has_kek_permission_ignores_archived(caller, spk) ==
    IF ~contains_key(NAMESPACES_STORE, spk[1]) THEN FALSE
    ELSE LET ns == NAMESPACES_STORE[spk[1]]
         IN IF \/ caller = spk[3]
               \/ caller \in ns.auditors
               \/ (spk[2] = 0 /\ caller \in ns.managers)
            THEN TRUE
            ELSE kek_reader(caller, spk)

has_kek_permission(caller, spk) ==
    IF ~contains_key(NAMESPACES_STORE, spk[1]) THEN FALSE
    ELSE LET ns == NAMESPACES_STORE[spk[1]]
         IN IF ns.status < 0 /\ caller \notin ns.managers THEN FALSE
            ELSE IF \/ caller = spk[3]
                    \/ caller \in ns.auditors
                    \/ (spk[2] = 0 /\ caller \in ns.managers)
                 THEN TRUE
            ELSE kek_reader(caller, spk)

\* the key material is a function of the state's public key and of the
\* namespace, scope, subject and key of spk; only its availability is kept
inner_derive_kek(spk) ==
    IF ~is_some(state.schnorr_secp256k1_public_key)
    THEN Err("no schnorr secp256k1 public key")
    ELSE Ok(NAMESPACES_STORE, SETTINGS_STORE, PAYLOADS_STORE, NoOut)

\* read_permission with the users of a private namespace given Full
read_permission_users_full(ns, caller) ==
    IF ns.visibility = 1 THEN "Full"
    ELSE IF caller \in ns.managers \/ caller \in ns.auditors THEN "Full"
    ELSE IF ns.status >= 0 /\ caller \in ns.users THEN "Full"
    ELSE "None"

\* Namespace::read_permission
read_permission(ns, caller) ==
    IF ns.visibility = 1 THEN "Full"
    ELSE IF caller \in ns.managers \/ caller \in ns.auditors THEN "Full"
    ELSE IF ns.status >= 0 /\ caller \in ns.users THEN "User"
    ELSE "None"

\* const MAX_KEY: [u8; 64] = [255u8; 64]
MAX_KEY == [i \in 1..MAX_KEY_LEN |-> 255]

\* the ops::Range list_setting_keys scans
list_setting_keys_range(namespace, user_owned, subject) ==
    IF is_some(subject)
    THEN [start |-> SettingPathKey(namespace, IF user_owned THEN 1 ELSE 0,
                                   unwrap(subject), << >>, 0),
          end |-> SettingPathKey(namespace, IF user_owned THEN 1 ELSE 0,
                                 unwrap(subject), MAX_KEY, 0)]
    ELSE [start |-> SettingPathKey(namespace, IF user_owned THEN 1 ELSE 0,
                                   ANONYMOUS, << >>, 0),
          end |-> SettingPathKey(namespace, IF user_owned THEN 2 ELSE 1,
                                 management_canister, << >>, U32_MAX)]

\* the keys of a set in the order of the table
RECURSIVE in_key_order(_)
in_key_order(keys) ==
    IF keys = {} THEN << >>
    ELSE LET first == CHOOSE k \in keys : \A o \in keys \ {k} : SpkLess(k, o)
         IN <<first>> \o in_key_order(keys \ {first})

\* keys_range(range): the keys from start up to, not including, end
keys_range(m, range) ==
    in_key_order({k \in DOMAIN m : ~SpkLess(k, range.start) /\ SpkLess(k, range.end)})

\* Vec<(Principal, ByteBuf)>: (k.2, k.3) of each key of the range
list_setting_keys(namespace, user_owned, subject) ==
    LET keys == keys_range(SETTINGS_STORE,
                           list_setting_keys_range(namespace, user_owned, subject))
    IN [i \in 1..Len(keys) |-> <<keys[i][3], keys[i][4]>>]

get_namespace(caller, namespace) ==
    IF ~contains_key(NAMESPACES_STORE, namespace) THEN Err("namespace not found")
    ELSE IF ~can_read_namespace(NAMESPACES_STORE[namespace], caller)
         THEN Err("no permission")
    ELSE Ok(NAMESPACES_STORE, SETTINGS_STORE, PAYLOADS_STORE, NoOut)

----------------------------------------------------------------------------
(* Endpoints.  Each is one message execution: the checks of the endpoint,   *)
(* the store call, and the reply kept in ret.                               *)

SettingPath(ns, user_owned, subject, key, version) ==
    [ns |-> ns, user_owned |-> user_owned, subject |-> subject, key |-> key,
     version |-> version]

\* the key a namespace endpoint is recorded under in ret
NsKey(name) == SettingPathKey(name, 0, management_canister, << >>, 0)

Max(a, b) == IF a > b THEN a ELSE b

at_version(k, version) == SettingPathKey(k[1], k[2], k[3], k[4], version)

\* the history variables after a call that leaves the settings table ss
SeenVersion(ss) ==
    [k \in (DOMAIN seen_version) \cup (DOMAIN ss) |->
        Max(IF k \in DOMAIN seen_version THEN seen_version[k] ELSE 0,
            IF k \in DOMAIN ss THEN ss[k].version ELSE 0)]

LiveAt(ss) ==
    LET kept == {kv \in DOMAIN live_at : v0(kv) \in DOMAIN ss}
        now == {at_version(k, ss[k].version) : k \in DOMAIN ss}
    IN [kv \in kept \cup now |->
           IF kv \in now
           THEN [payload |-> ss[v0(kv)].payload, dek |-> ss[v0(kv)].dek]
           ELSE live_at[kv]]

\* the tables as the call leaves them
Commit(r) ==
    /\ NAMESPACES_STORE' = r.ns
    /\ SETTINGS_STORE' = r.ss
    /\ PAYLOADS_STORE' = r.ps
    /\ seen_version' = SeenVersion(r.ss)
    /\ live_at' = LiveAt(r.ss)
    /\ UNCHANGED <<state, awaiting, SIGNATURES, signed, unwrapped, ObjectVars, WasmVars>>

Reply(op, caller, spk, r) ==
    [op |-> op, caller |-> caller, spk |-> spk, ok |-> r.ok, err |-> r.err,
     out |-> r.out]

\* the update endpoints build the key from the path and its subject, the
\* caller when the path names none
path_key(path, caller) == from_path(path, unwrap_or(path.subject, caller))

admin_create_namespace(caller, args) ==
    LET r == IF ~allowed_api("admin_create_namespace") THEN Err("API not allowed")
             ELSE IF ~CreateNamespaceInput_validate(args) THEN Err("invalid input")
             ELSE create_namespace(caller, args)
    IN /\ ret' = Reply("admin_create_namespace", caller, NsKey(args.name), r)
       /\ Commit(r)

namespace_update_info(caller, args) ==
    LET r == IF ~is_authenticated(caller) THEN Err("anonymous user is not allowed")
             ELSE IF ~allowed_api("namespace_update_info") THEN Err("API not allowed")
             ELSE IF ~UpdateNamespaceInput_validate(args) THEN Err("invalid input")
             ELSE update_namespace_info(caller, args)
    IN /\ ret' = Reply("namespace_update_info", caller, NsKey(args.name), r)
       /\ Commit(r)

namespace_delete(caller, namespace) ==
    LET r == IF ~is_authenticated(caller) THEN Err("anonymous user is not allowed")
             ELSE IF ~allowed_api("namespace_delete") THEN Err("API not allowed")
             ELSE delete_namespace(caller, namespace)
    IN /\ ret' = Reply("namespace_delete", caller, NsKey(namespace), r)
       /\ Commit(r)

\* the least top-up, scaled down from 1_000_000_000_000 cycles, and the
\* largest u128 of the model
MIN_CYCLES == 10
U128_MAX == 20

\* ns::with_mut with the closure of namespace_top_up, which asks for no
\* permission: msg_cycles_accept128 takes the cycles, all of them available
top_up(namespace, cycles) ==
    IF ~contains_key(NAMESPACES_STORE, namespace) THEN Err("namespace not found")
    ELSE Ok(insert(NAMESPACES_STORE, namespace,
                   [NAMESPACES_STORE[namespace] EXCEPT
                       !.gas_balance = saturating_add(@, cycles, U128_MAX)]),
            SETTINGS_STORE, PAYLOADS_STORE, [received |-> cycles])

\* available: msg_cycles_available128()
namespace_top_up(caller, namespace, cycles, available) ==
    LET r == IF ~is_authenticated(caller) THEN Err("anonymous user is not allowed")
             ELSE IF ~allowed_api("namespace_top_up") THEN Err("API not allowed")
             ELSE IF cycles < MIN_CYCLES THEN Err("cycles should be greater than 1T")
             ELSE IF cycles > available THEN Err("insufficient cycles")
             ELSE top_up(namespace, cycles)
    IN /\ ret' = Reply("namespace_top_up", caller, NsKey(namespace), r)
       /\ Commit(r)

\* the membership endpoints: guard, allow-list, validate_principals, then
\* ns::with_mut with the change of one member set
member_update(api, caller, namespace, args, updated) ==
    IF ~is_authenticated(caller) THEN Err("anonymous user is not allowed")
    ELSE IF ~allowed_api(api) THEN Err("API not allowed")
    ELSE IF ~validate_principals(args) THEN Err("invalid input")
    ELSE with_mut(caller, namespace, updated)

namespace_add_managers(caller, namespace, args) ==
    LET r == member_update("namespace_add_managers", caller, namespace, args,
                 [NAMESPACES_STORE[namespace] EXCEPT !.managers = @ \cup args])
    IN /\ ret' = Reply("namespace_add_managers", caller, NsKey(namespace), r)
       /\ Commit(r)

namespace_remove_managers(caller, namespace, args) ==
    LET r == member_update("namespace_remove_managers", caller, namespace, args,
                 [NAMESPACES_STORE[namespace] EXCEPT !.managers = @ \ args])
    IN /\ ret' = Reply("namespace_remove_managers", caller, NsKey(namespace), r)
       /\ Commit(r)

namespace_add_auditors(caller, namespace, args) ==
    LET r == member_update("namespace_add_auditors", caller, namespace, args,
                 [NAMESPACES_STORE[namespace] EXCEPT !.auditors = @ \cup args])
    IN /\ ret' = Reply("namespace_add_auditors", caller, NsKey(namespace), r)
       /\ Commit(r)

namespace_remove_auditors(caller, namespace, args) ==
    LET r == member_update("namespace_remove_auditors", caller, namespace, args,
                 [NAMESPACES_STORE[namespace] EXCEPT !.auditors = @ \ args])
    IN /\ ret' = Reply("namespace_remove_auditors", caller, NsKey(namespace), r)
       /\ Commit(r)

namespace_add_users(caller, namespace, args) ==
    LET r == member_update("namespace_add_users", caller, namespace, args,
                 [NAMESPACES_STORE[namespace] EXCEPT !.users = @ \cup args])
    IN /\ ret' = Reply("namespace_add_users", caller, NsKey(namespace), r)
       /\ Commit(r)

namespace_remove_users(caller, namespace, args) ==
    LET r == member_update("namespace_remove_users", caller, namespace, args,
                 [NAMESPACES_STORE[namespace] EXCEPT !.users = @ \ args])
    IN /\ ret' = Reply("namespace_remove_users", caller, NsKey(namespace), r)
       /\ Commit(r)

\* api_identity.rs: the delegators of a fixed identity name.  The names of
\* the model are valid keys in lower case.
NamespaceDelegatorsInput_validate(input) == validate_principals(input.delegators)

namespace_add_delegator(caller, input) ==
    LET r == IF ~allowed_api("namespace_add_delegator") THEN Err("API not allowed")
             ELSE IF ~NamespaceDelegatorsInput_validate(input) THEN Err("invalid input")
             ELSE with_mut(caller, input.ns,
                     [NAMESPACES_STORE[input.ns] EXCEPT !.fixed_id_names =
                         insert(@, input.name,
                                (IF contains_key(@, input.name) THEN @[input.name] ELSE {})
                                \cup input.delegators)])
    IN /\ ret' = Reply("namespace_add_delegator", caller, NsKey(input.ns), r)
       /\ Commit(r)

namespace_remove_delegator(caller, input) ==
    LET r == IF ~allowed_api("namespace_remove_delegator") THEN Err("API not allowed")
             ELSE IF ~NamespaceDelegatorsInput_validate(input) THEN Err("invalid input")
             ELSE with_mut(caller, input.ns,
                     [NAMESPACES_STORE[input.ns] EXCEPT !.fixed_id_names =
                         IF ~contains_key(@, input.name) THEN @
                         ELSE IF @[input.name] \ input.delegators = {}
                              THEN remove(@, input.name)
                         ELSE insert(@, input.name, @[input.name] \ input.delegators)])
    IN /\ ret' = Reply("namespace_remove_delegator", caller, NsKey(input.ns), r)
       /\ Commit(r)

\* nanoseconds in a millisecond, scaled down from 1000000
MILLISECONDS == 10

\* str::to_ascii_lowercase on the names of the model
to_ascii_lowercase(s) == CASE s = "N" -> "n" [] OTHER -> s

\* the seed of a fixed identity: the CBOR encoding of (ns, name)
identity_seed(ns, name) == <<ns, name>>

\* delegation_signature_msg(pubkey, expiration, None): a hash of both
delegation_signature_msg(pubkey, expiration) == <<pubkey, expiration>>

\* a public key is its bytes: an id and whether they parse as a DER key
PublicKey(id, der) == [id |-> id, der |-> der]

\* a signature is the key that made it and the message it covers
Signature(pubkey, msg) == [pubkey |-> pubkey, msg |-> msg]

user_public_key_from_bytes(pubkey) == pubkey.der

verify_basic_sig_by_public_key(pubkey, msg, sig) ==
    sig.pubkey = pubkey /\ sig.msg = msg

\* the CBOR encoding of (ns, name, caller) that the session key signs
delegation_challenge(ns, name, caller) == <<ns, name, caller>>

\* SignatureMap::add_signature drops the entries that have expired (a
\* minute after they were added) and inserts the pair
add_signature(expired, seed, message) ==
    (SIGNATURES \ expired) \cup {[seed |-> seed, message |-> message]}

\* get_signature with the message ignored
get_signature_any_message(seed, message) ==
    IF \E e \in SIGNATURES : e.seed = seed
    THEN Ok(NAMESPACES_STORE, SETTINGS_STORE, PAYLOADS_STORE, NoOut)
    ELSE Err("failed to get signature")

\* SignatureMap::get_signature_as_cbor finds the pair or fails
get_signature(seed, message) ==
    IF [seed |-> seed, message |-> message] \in SIGNATURES
    THEN Ok(NAMESPACES_STORE, SETTINGS_STORE, PAYLOADS_STORE, NoOut)
    ELSE Err("failed to get signature")

\* u64::MAX on the scale of the times of the model
TIME_MAX == 1073741823

\* u64 addition and multiplication as a build without overflow checks
\* computes them
wrapping_add(a, b) == (a + b) % (TIME_MAX + 1)

RECURSIVE wrapping_mul(_, _)
wrapping_mul(a, n) ==
    IF n = 0 THEN 0 ELSE wrapping_add(wrapping_mul(a, n - 1), a)

\* whether (now_ms + session_expires_in_ms) * MILLISECONDS leaves the u64
\* range: a build with overflow checks panics on it
expiration_overflows(now_ms, session_expires_in_ms) ==
    \/ now_ms + session_expires_in_ms > TIME_MAX
    \/ now_ms + session_expires_in_ms > TIME_MAX \div MILLISECONDS

sign_expiration(now_ms, session_expires_in_ms) ==
    wrapping_mul(wrapping_add(now_ms, session_expires_in_ms), MILLISECONDS)

\* namespace_sign_delegation without the look-up of the caller among the
\* delegators
sign_delegation_checked_any_caller(caller, input, now_ms) ==
    LET name == to_ascii_lowercase(input.name)
    IN IF ~allowed_api("namespace_sign_delegation") THEN Err("API not allowed")
       ELSE IF ~user_public_key_from_bytes(input.pubkey) THEN Err("invalid public key")
       ELSE IF ~verify_basic_sig_by_public_key(
                   input.pubkey, delegation_challenge(input.ns, name, caller), input.sig)
            THEN Err("challenge verification failed")
       ELSE IF ~contains_key(NAMESPACES_STORE, input.ns) THEN Err("namespace not found")
       ELSE LET ns == NAMESPACES_STORE[input.ns]
            IN IF ~contains_key(ns.fixed_id_names, name) THEN Err("name not found")
               ELSE IF ns.session_expires_in_ms = 0 THEN Err("delegation is disabled")
               ELSE Ok(NAMESPACES_STORE, SETTINGS_STORE, PAYLOADS_STORE,
                       [expiration |-> sign_expiration(now_ms, ns.session_expires_in_ms),
                        seed |-> identity_seed(input.ns, name)])

\* the checks of namespace_sign_delegation, up to add_signature
sign_delegation_checked(caller, input, now_ms) ==
    LET name == to_ascii_lowercase(input.name)
    IN IF ~allowed_api("namespace_sign_delegation") THEN Err("API not allowed")
       ELSE IF ~user_public_key_from_bytes(input.pubkey) THEN Err("invalid public key")
       ELSE IF ~verify_basic_sig_by_public_key(
                   input.pubkey, delegation_challenge(input.ns, name, caller), input.sig)
            THEN Err("challenge verification failed")
       ELSE IF ~contains_key(NAMESPACES_STORE, input.ns) THEN Err("namespace not found")
       ELSE LET ns == NAMESPACES_STORE[input.ns]
            IN IF ~contains_key(ns.fixed_id_names, name) THEN Err("name not found")
               ELSE IF caller \notin ns.fixed_id_names[name]
                    THEN Err("caller is not a delegator")
               ELSE IF ns.session_expires_in_ms = 0 THEN Err("delegation is disabled")
               ELSE Ok(NAMESPACES_STORE, SETTINGS_STORE, PAYLOADS_STORE,
                       [expiration |-> sign_expiration(now_ms, ns.session_expires_in_ms),
                        seed |-> identity_seed(input.ns, name)])

\* the reply of an identity endpoint, kept with the request it answers
IdentityReply(op, caller, ns, input, r) ==
    [op |-> op, caller |-> caller, spk |-> NsKey(ns), ok |-> r.ok, err |-> r.err,
     out |-> r.out, input |-> input]

\* the arithmetic of the expiration either wraps or, in a build with
\* overflow checks, panics: the call traps and changes nothing
namespace_sign_delegation(caller, input, now_ms, expired) ==
    \E overflow_checks \in BOOLEAN :
    LET checked == sign_delegation_checked(caller, input, now_ms)
        r == IF /\ checked.ok
                /\ overflow_checks
                /\ expiration_overflows(
                      now_ms, NAMESPACES_STORE[input.ns].session_expires_in_ms)
             THEN Err("trap: arithmetic overflow")
             ELSE checked
    IN /\ expired \subseteq SIGNATURES
       /\ ret' = IdentityReply("namespace_sign_delegation", caller, input.ns, input, r)
       /\ SIGNATURES' =
             IF r.ok
             THEN add_signature(expired, r.out.seed,
                                delegation_signature_msg(input.pubkey, r.out.expiration))
             ELSE SIGNATURES
       /\ signed' =
             IF r.ok
             THEN signed \cup {[seed |-> r.out.seed, pubkey |-> input.pubkey,
                                expiration |-> r.out.expiration]}
             ELSE signed
       /\ UNCHANGED <<state, NAMESPACES_STORE, SETTINGS_STORE, PAYLOADS_STORE,
                      seen_version, live_at, awaiting, unwrapped, ObjectVars, WasmVars>>

\* a query: it reads SIGNATURES and writes nothing
get_delegation(caller, seed, pubkey, expiration) ==
    LET r == get_signature(seed, delegation_signature_msg(pubkey, expiration))
    IN /\ ret' = IdentityReply("get_delegation", caller, "",
                               [seed |-> seed, pubkey |-> pubkey,
                                expiration |-> expiration], r)
       /\ UNCHANGED <<state, NAMESPACES_STORE, SETTINGS_STORE, PAYLOADS_STORE,
                      seen_version, live_at, awaiting, SIGNATURES, signed, unwrapped, ObjectVars, WasmVars>>

namespace_get_info(caller, namespace) ==
    LET r == get_namespace(caller, namespace)
    IN /\ ret' = Reply("namespace_get_info", caller, NsKey(namespace), r)
       /\ Commit(r)

\* the reply of namespace_list_setting_keys
ListOut(keys) == [keys |-> keys]

\* a query: ns::with, then the listing the caller's read permission allows
namespace_list_setting_keys(caller, namespace, user_owned, subject) ==
    LET r == IF ~contains_key(NAMESPACES_STORE, namespace)
             THEN Err("namespace not found")
             ELSE LET permission == read_permission(NAMESPACES_STORE[namespace], caller)
                  IN IF permission = "Full"
                     THEN Ok(NAMESPACES_STORE, SETTINGS_STORE, PAYLOADS_STORE,
                             ListOut(list_setting_keys(namespace, user_owned, subject)))
                     ELSE IF permission = "User" /\ subject = None
                     THEN Ok(NAMESPACES_STORE, SETTINGS_STORE, PAYLOADS_STORE,
                             ListOut(list_setting_keys(namespace, user_owned,
                                                       Some(caller))))
                     ELSE Err("no permission")
    IN /\ ret' = [op |-> "namespace_list_setting_keys", caller |-> caller,
                  spk |-> NsKey(namespace), user_owned |-> user_owned,
                  subject |-> subject, ok |-> r.ok, err |-> r.err, out |-> r.out]
       /\ Commit(r)

setting_create(caller, path, input) ==
    LET r == IF ~is_authenticated(caller) THEN Err("anonymous user is not allowed")
             ELSE IF ~SettingPath_validate(path) \/ ~CreateSettingInput_validate(input)
                  THEN Err("invalid input")
             ELSE create_setting(caller, path_key(path, caller), input)
    IN /\ ret' = Reply("setting_create", caller, path_key(path, caller), r)
       /\ Commit(r)

setting_update_info(caller, path, input) ==
    LET r == IF ~is_authenticated(caller) THEN Err("anonymous user is not allowed")
             ELSE IF ~SettingPath_validate(path) \/ ~UpdateSettingInfoInput_validate(input)
                  THEN Err("invalid input")
             ELSE update_setting_info(caller, path_key(path, caller), input)
    IN /\ ret' = Reply("setting_update_info", caller, path_key(path, caller), r)
       /\ Commit(r)

setting_update_payload(caller, path, input) ==
    LET r == IF ~is_authenticated(caller) THEN Err("anonymous user is not allowed")
                 ELSE IF \/ ~SettingPath_validate(path)
                         \/ ~UpdateSettingPayloadInput_validate(input)
                      THEN Err("invalid input")
                 ELSE update_setting_payload(caller, path_key(path, caller), input)
    IN /\ ret' = Reply("setting_update_payload", caller, path_key(path, caller), r)
       /\ Commit(r)

setting_add_readers(caller, path, input) ==
    LET r == IF ~is_authenticated(caller) THEN Err("anonymous user is not allowed")
             ELSE IF ~SettingPath_validate(path) \/ ~validate_principals(input)
                  THEN Err("invalid input")
             ELSE add_readers(caller, path_key(path, caller), input)
    IN /\ ret' = Reply("setting_add_readers", caller, path_key(path, caller), r)
       /\ Commit(r)

setting_remove_readers(caller, path, input) ==
    LET r == IF ~is_authenticated(caller) THEN Err("anonymous user is not allowed")
             ELSE IF ~SettingPath_validate(path) \/ ~validate_principals(input)
                  THEN Err("invalid input")
             ELSE remove_readers(caller, path_key(path, caller), input)
    IN /\ ret' = Reply("setting_remove_readers", caller, path_key(path, caller), r)
       /\ Commit(r)

\* ns::delete_setting, reached through the setting_delete method of the client
setting_delete(caller, path) ==
    LET r == IF ~is_authenticated(caller) THEN Err("anonymous user is not allowed")
             ELSE IF ~SettingPath_validate(path) THEN Err("invalid input")
             ELSE delete_setting(caller, path_key(path, caller))
    IN /\ ret' = Reply("setting_delete", caller, path_key(path, caller), r)
       /\ Commit(r)

setting_get_info(caller, path) ==
    LET r == IF ~SettingPath_validate(path) THEN Err("invalid input")
             ELSE get_setting_info(caller, from_path(path, caller))
    IN /\ ret' = Reply("setting_get_info", caller, from_path(path, caller), r)
       /\ Commit(r)

setting_get(caller, path) ==
    LET r == IF ~SettingPath_validate(path) THEN Err("invalid input")
             ELSE get_setting(caller, from_path(path, caller))
    IN /\ ret' = Reply("setting_get", caller, from_path(path, caller), r)
       /\ Commit(r)

setting_get_archived_payload(caller, path) ==
    LET r == IF ~SettingPath_validate(path) THEN Err("invalid input")
             ELSE get_setting_archived_payload(caller, from_path(path, caller))
    IN /\ ret' = Reply("setting_get_archived_payload", caller, from_path(path, caller), r)
       /\ Commit(r)

\* the part of a key endpoint that runs before its await
kek_checked(api, caller, path) ==
    IF ~is_authenticated(caller) THEN Err("anonymous user is not allowed")
    ELSE IF ~allowed_api(api) THEN Err("API not allowed")
    ELSE IF ~SettingPath_validate(path) THEN Err("invalid input")
    ELSE IF ~has_kek_permission(caller, from_path(path, caller))
         THEN Err("no permission")
    ELSE IF api = "ecdh_cose_encrypted_key"
         THEN inner_derive_kek(from_path(path, caller))
    ELSE Ok(NAMESPACES_STORE, SETTINGS_STORE, PAYLOADS_STORE, NoOut)

Awaiting(op, caller, spk) == [op |-> op, caller |-> caller, spk |-> spk]

\* a refused request replies at once; an accepted one is suspended at the
\* await of raw_rand or of the vetKD call and replies in oracle_reply
kek_call(api, caller, spk, r) ==
    IF r.ok
    THEN /\ awaiting' = awaiting \cup {Awaiting(api, caller, spk)}
         /\ UNCHANGED <<state, NAMESPACES_STORE, SETTINGS_STORE,
                        PAYLOADS_STORE, ret, seen_version, live_at,
                        SIGNATURES, signed, unwrapped, ObjectVars, WasmVars>>
    ELSE /\ ret' = Reply(api, caller, spk, r)
         /\ Commit(r)

ecdh_cose_encrypted_key(caller, path) ==
    LET r == kek_checked("ecdh_cose_encrypted_key", caller, path)
    IN /\ r.ok => Cardinality(awaiting) < MaxAwaiting
       /\ kek_call("ecdh_cose_encrypted_key", caller, from_path(path, caller), r)

vetkd_public_key(caller, path) ==
    LET r == kek_checked("vetkd_public_key", caller, path)
    IN /\ r.ok => Cardinality(awaiting) < MaxAwaiting
       /\ kek_call("vetkd_public_key", caller, from_path(path, caller), r)

vetkd_encrypted_key(caller, path) ==
    LET r == kek_checked("vetkd_encrypted_key", caller, path)
    IN /\ r.ok => Cardinality(awaiting) < MaxAwaiting
       /\ kek_call("vetkd_encrypted_key", caller, from_path(path, caller), r)

\* the await returns: the key is delivered, or the oracle's error is
oracle_reply(q, delivered) ==
    LET r == IF delivered
             THEN Ok(NAMESPACES_STORE, SETTINGS_STORE, PAYLOADS_STORE, NoOut)
             ELSE Err("oracle call failed")
    IN /\ q \in awaiting
       /\ awaiting' = awaiting \ {q}
       /\ ret' = Reply(q.op, q.caller, q.spk, r)
       /\ UNCHANGED <<state, NAMESPACES_STORE, SETTINGS_STORE, PAYLOADS_STORE,
                      seen_version, live_at, SIGNATURES, signed, unwrapped, ObjectVars, WasmVars>>

----------------------------------------------------------------------------
(* api_update.rs: create_setting and update_setting_payload with an ECDH   *)
(* exchange.  The file is written against ic_cose_types/src/setting.rs,    *)
(* whose UpdateSettingPayloadInput carries the expected version, and is    *)
(* not among the modules lib.rs declares.  A handler runs up to its first  *)
(* await in one message and resumes in another; the awaits of one handler  *)
(* read no canister state between them and are taken as one suspension.    *)

setting_rs_CreateSettingInput_validate(input) ==
    is_some(input.status) =>
        /\ unwrap(input.status) \in 0..1
        /\ unwrap(input.status) = 1 => is_some(input.payload)

setting_rs_UpdateSettingPayloadInput_validate(input) ==
    is_some(input.status) => unwrap(input.status) \in -1..1

\* try_decode_payload(max_size, ctype, payload) of setting.rs; the payloads
\* of the model are of the setting's ctype when they are CBOR at all
setting_rs_try_decode_payload(max_size, payload) ==
    /\ ~(max_size > 0 /\ payload.len > max_size)
    /\ try_decode_payload(payload)

\* ECDHInput: partial_key is whether the optional partial key is given
ECDHInput(partial_key) == [partial_key |-> partial_key]

\* a request suspended at an await.  overtaken is history: another update
\* of the same setting with the same expected version has succeeded since
\* this request passed its checks
InFlight(op, caller, spk, input) ==
    [op |-> op, caller |-> caller, spk |-> spk, input |-> input,
     overtaken |-> FALSE]

\* the tables and their history as a store call leaves them
Write(r) ==
    /\ NAMESPACES_STORE' = r.ns
    /\ SETTINGS_STORE' = r.ss
    /\ PAYLOADS_STORE' = r.ps
    /\ seen_version' = SeenVersion(r.ss)
    /\ live_at' = LiveAt(r.ss)

\* the suspended requests after an update of spk that expected version
Overtake(q, spk, version) ==
    IF q.op = "update_setting_payload" /\ v0(q.spk) = v0(spk)
       /\ q.input.version = version
    THEN [q EXCEPT !.overtaken = TRUE]
    ELSE q

\* lines 82-92; a request with an ECDH input is suspended at line 94 after
\* store::ns::create_setting has returned
api_update_create_setting(caller, path, input, ecdh) ==
    LET spk == path_key(path, caller)
        r == IF \/ ~SettingPath_validate(path)
                \/ ~setting_rs_CreateSettingInput_validate(input)
             THEN Err("invalid input")
             ELSE IF is_some(input.payload) /\ is_some(ecdh)
                  THEN Err("can not encrypt payload when creating setting")
             ELSE create_setting(caller, spk,
                     [status |-> input.status, payload |-> input.payload,
                      dek |-> None])
    IN IF r.ok /\ is_some(ecdh)
       THEN /\ Cardinality(awaiting) < MaxInFlight
            /\ awaiting' = awaiting \cup {InFlight("create_setting", caller, spk, input)}
            /\ Write(r)
            /\ UNCHANGED <<state, ret, SIGNATURES, signed, unwrapped, ObjectVars, WasmVars>>
       ELSE /\ ret' = Reply("create_setting", caller, spk, r)
            /\ Commit(r)

\* line 94 returns: the public key is added to the output, or the error of
\* ecdh_x25519_static_secret is the reply
api_update_create_setting_resume(q, delivered) ==
    LET r == IF delivered
             THEN Ok(NAMESPACES_STORE, SETTINGS_STORE, PAYLOADS_STORE,
                     Out(1, None, None))
             ELSE Err("oracle call failed")
    IN /\ q \in awaiting
       /\ q.op = "create_setting"
       /\ awaiting' = awaiting \ {q}
       /\ ret' = Reply(q.op, q.caller, q.spk, r)
       /\ UNCHANGED <<state, NAMESPACES_STORE, SETTINGS_STORE, PAYLOADS_STORE,
                      seen_version, live_at, SIGNATURES, signed, unwrapped, ObjectVars, WasmVars>>

\* store::ns::setting_for_update_payload(&caller, &spk): the setting's
\* info, its dek and the namespace's max_payload_size for a writer
setting_for_update_payload(caller, spk) ==
    IF ~contains_key(NAMESPACES_STORE, spk[1]) THEN Err("namespace not found")
    ELSE LET ns == NAMESPACES_STORE[spk[1]]
         IN IF ~can_write_setting(ns, caller, spk) THEN Err("no permission")
            ELSE IF ~contains_key(SETTINGS_STORE, v0(spk)) THEN Err("setting not found")
            ELSE LET setting == SETTINGS_STORE[v0(spk)]
                 IN IF is_readonly(setting)
                    THEN Err("readonly setting can not be updated")
                    ELSE Ok(NAMESPACES_STORE, SETTINGS_STORE, PAYLOADS_STORE,
                            Out(setting.version, None, setting.dek))

\* store::ns::update_setting_payload(&spk, payload, dek, hash, status,
\* now_ms): it is given neither the caller nor the expected version; it
\* archives the current payload and dek under the current version,
\* overwrites payload, dek and status and increments the version
store_update_setting_payload(spk, payload, dek, status) ==
    IF ~contains_key(SETTINGS_STORE, v0(spk)) THEN Err("setting not found")
    ELSE LET setting == SETTINGS_STORE[v0(spk)]
             input == [payload |-> Some(payload), dek |-> dek, status |-> status,
                       deprecate_current |-> None]
             new == updated_setting(setting, input)
         IN Ok(NAMESPACES_STORE,
               insert(SETTINGS_STORE, v0(spk), new),
               archive_current(at_version(spk, setting.version), setting, input),
               Out(new.version, None, None))

\* lines 121-151: the checks made before the first await, and for a request
\* without an ECDH input the whole update
update_setting_payload_checked(caller, spk, path, input, ecdh) ==
    IF \/ ~SettingPath_validate(path)
       \/ ~setting_rs_UpdateSettingPayloadInput_validate(input)
    THEN Err("invalid input")
    ELSE LET pre == setting_for_update_payload(caller, spk)
         IN IF ~pre.ok THEN pre
            ELSE IF pre.out.version # input.version THEN Err("version mismatch")
            ELSE IF is_some(pre.out.dek) /\ ecdh = None
                 THEN Err("missing ECDH for payload encryption")
            ELSE IF ecdh = None
                 THEN IF ~setting_rs_try_decode_payload(
                              NAMESPACES_STORE[spk[1]].max_payload_size, input.payload)
                      THEN Err("invalid payload")
                      ELSE store_update_setting_payload(spk, input.payload, None,
                                                        input.status)
            ELSE IF ~unwrap(ecdh).partial_key THEN Err("missing partial key")
            ELSE pre

api_update_update_setting_payload(caller, path, input, ecdh) ==
    LET spk == path_key(path, caller)
        r == update_setting_payload_checked(caller, spk, path, input, ecdh)
    IN IF r.ok /\ is_some(ecdh)
       THEN /\ Cardinality(awaiting) < MaxInFlight
            /\ awaiting' = awaiting \cup
                   {InFlight("update_setting_payload", caller, spk, input)}
            /\ UNCHANGED <<state, NAMESPACES_STORE, SETTINGS_STORE,
                           PAYLOADS_STORE, ret, seen_version, live_at,
                        SIGNATURES, signed, unwrapped, ObjectVars, WasmVars>>
       ELSE /\ ret' = Reply("update_setting_payload", caller, spk, r)
            /\ Write(r)
            /\ awaiting' = IF r.ok
                           THEN {Overtake(q, spk, input.version) : q \in awaiting}
                           ELSE awaiting
            /\ UNCHANGED <<state, SIGNATURES, signed, unwrapped, ObjectVars, WasmVars>>

\* cose_encrypt0(&key, &kek, aad, nonce): the fresh dek wrapped by the kek
wrapped_dek == Bytes(7, 1, "enc")

\* lines 152-171: the awaits return and the re-encrypted payload and the
\* wrapped dek are stored; delivered is FALSE when an oracle call, the
\* decryption of the input or the decoding of the plaintext fails
api_update_update_setting_payload_resume(q, delivered) ==
    LET r == IF delivered
             THEN store_update_setting_payload(q.spk,
                      Bytes(q.input.payload.id, q.input.payload.len, "enc"),
                      Some(wrapped_dek), q.input.status)
             ELSE Err("oracle call failed")
    IN /\ q \in awaiting
       /\ q.op = "update_setting_payload"
       /\ ret' = Reply(q.op, q.caller, q.spk, r)
       /\ Write(r)
       /\ awaiting' = IF r.ok
                      THEN {Overtake(x, q.spk, q.input.version) : x \in awaiting \ {q}}
                      ELSE awaiting \ {q}
       /\ UNCHANGED <<state, SIGNATURES, signed, unwrapped, ObjectVars, WasmVars>>

----------------------------------------------------------------------------
(* ic_cose_types/src/cose: AES-256-GCM and COSE_Encrypt0.  A plaintext is  *)
(* a sequence of bytes below ByteBound.  The cipher is an ideal AEAD: the  *)
(* ciphertext bytes are the plaintext bytes shifted by a keystream of the  *)
(* key and nonce, and the 16-byte tag, the last element of the output, is  *)
(* the tuple of everything it authenticates.                               *)

ByteBound == 2

keystream(key, nonce, i) == (key + 2 * nonce.id + i) % ByteBound

GcmTag(key, nonce, aad, ct) == [key |-> key, nonce |-> nonce, aad |-> aad, ct |-> ct]

\* encrypt_in_place_detached: the buffer becomes the ciphertext, the tag is
\* returned
aes256_gcm_encrypt_in(key, nonce, aad, data) ==
    LET ct == [i \in 1..Len(data) |-> (data[i] + keystream(key, nonce, i)) % ByteBound]
    IN [data |-> ct, tag |-> GcmTag(key, nonce, aad, ct)]

\* the ciphertext followed by the tag
aes256_gcm_encrypt(key, nonce, aad, plain_data) ==
    LET r == aes256_gcm_encrypt_in(key, nonce, aad, plain_data)
    IN Append(r.data, r.tag)

\* decrypt_in_place_detached: the tag is verified, then the buffer becomes
\* the plaintext
aes256_gcm_decrypt_in(key, nonce, aad, data, tag) ==
    IF tag # GcmTag(key, nonce, aad, data) THEN [ok |-> FALSE, out |-> None]
    ELSE [ok |-> TRUE,
          out |-> Some([i \in 1..Len(data) |->
                          (data[i] + ByteBound - keystream(key, nonce, i)) % ByteBound])]

\* the tag is what follows position len - 16, the whole input when it is
\* shorter; cose_encrypt0 never makes such an input
aes256_gcm_decrypt(key, nonce, aad, cipher_data) ==
    IF cipher_data = << >> THEN [ok |-> FALSE, out |-> None]
    ELSE aes256_gcm_decrypt_in(key, nonce, aad,
                               SubSeq(cipher_data, 1, Len(cipher_data) - 1),
                               cipher_data[Len(cipher_data)])

\* the Enc_structure without the external aad
enc_structure_without_aad(protected, aad) == <<"Encrypt0", protected, << >>>>

\* the Enc_structure coset authenticates: context, protected header, aad
enc_structure(protected, aad) == <<"Encrypt0", protected, aad>>

Nonce(id, len) == [id |-> id, len |-> len]

\* the tagged CBOR encoding of the item, kept as the item it decodes to
cose_encrypt0(payload, secret, aad, nonce, key_id) ==
    [protected |-> "A256GCM", iv |-> nonce, key_id |-> key_id,
     ciphertext |-> aes256_gcm_encrypt(secret, nonce,
                                       enc_structure("A256GCM", aad), payload)]

\* slice::first_chunk::<12>: the first 12 bytes of an iv that has them; id
\* names the content of those bytes
first_chunk_12(iv) == IF iv.len < 12 THEN None ELSE Some(Nonce(iv.id, 12))

cose_decrypt0(payload, secret, aad) ==
    LET nonce == first_chunk_12(payload.iv)
    IN IF ~is_some(nonce) THEN [ok |-> FALSE, out |-> None]
       ELSE aes256_gcm_decrypt(secret, unwrap(nonce),
                               enc_structure(payload.protected, aad),
                               payload.ciphertext)

\* the reply of a step on COSE items: what was sealed, the item in hand and
\* whether a byte of it was altered, and the outcome of the last decryption
CoseRet(op, sealed, item, altered, secret, aad, r) ==
    [op |-> op, sealed |-> sealed, item |-> item, altered |-> altered,
     secret |-> secret, aad |-> aad, ok |-> r.ok, out |-> r.out]

CoseFrame ==
    UNCHANGED <<state, NAMESPACES_STORE, SETTINGS_STORE, PAYLOADS_STORE,
                seen_version, live_at, awaiting, SIGNATURES, signed, unwrapped, ObjectVars, WasmVars>>

cose_encrypt0_call(payload, secret, aad, nonce) ==
    /\ ret' = CoseRet("cose_encrypt0",
                      [payload |-> payload, secret |-> secret, aad |-> aad,
                       nonce |-> nonce],
                      cose_encrypt0(payload, secret, aad, nonce, None),
                      FALSE, secret, aad, [ok |-> TRUE, out |-> None])
    /\ CoseFrame

\* one element of the ciphertext of the item in hand is replaced by another
\* value: a ciphertext byte by a byte, the tag by the tag the same bytes
\* have under the key, nonce and AAD of forged
alter_ciphertext(i, byte, forged) ==
    /\ ret.op = "cose_encrypt0"
    /\ i \in 1..Len(ret.item.ciphertext)
    /\ LET last == Len(ret.item.ciphertext)
           tag == GcmTag(forged.secret, forged.nonce,
                         enc_structure("A256GCM", forged.aad),
                         SubSeq(ret.item.ciphertext, 1, last - 1))
           v == IF i = last THEN tag ELSE byte
       IN /\ v # ret.item.ciphertext[i]
          /\ ret' = [ret EXCEPT !.op = "alter_ciphertext", !.altered = TRUE,
                                !.item.ciphertext[i] = v]
    /\ CoseFrame

\* the iv of the item in hand, which the unprotected header carries, is cut
\* or extended to len bytes; bytes are dropped or added at its end
alter_iv(len) ==
    /\ ret.op = "cose_encrypt0"
    /\ len # ret.item.iv.len
    /\ ret' = [ret EXCEPT !.op = "alter_iv", !.altered = TRUE, !.item.iv.len = len]
    /\ CoseFrame

cose_decrypt0_call(secret, aad) ==
    /\ ret.op \in {"cose_encrypt0", "alter_ciphertext", "alter_iv"}
    /\ ret' = CoseRet("cose_decrypt0", ret.sealed, ret.item, ret.altered, secret, aad,
                      cose_decrypt0(ret.item, secret, aad))
    /\ CoseFrame

----------------------------------------------------------------------------
(* The values of the ECDH key delivery: cose/ecdh.rs, cose/mod.rs,         *)
(* ns::inner_derive_kek and the part of ecdh_cose_encrypted_key that       *)
(* follows its await.  X25519 is exponentiation in a small group; the      *)
(* HMAC and the key derivation are functions that are injective on the     *)
(* inputs of the model, their value a string of KekLen bytes.              *)

DhModulus == 11
DhBase == 2
\* what a kek of the model has one bit of each
KekInputs == <<"public_key", "init_vector", "subject", "scope", "namespace", "key_id">>
KekLen == Len(KekInputs)

RECURSIVE PowMod(_, _)
PowMod(u, s) == IF s = 0 THEN 1 ELSE (u * PowMod(u, s - 1)) % DhModulus

\* PublicKey::from(&StaticSecret)
x25519_public(secret) == PowMod(DhBase, secret)

\* StaticSecret::diffie_hellman
diffie_hellman(secret, their_public) == PowMod(their_public, secret)

\* ecdh_x25519 returning the public key it was given
ecdh_x25519_echoes_public(secret, their_public) ==
    [shared_secret |-> diffie_hellman(secret, their_public),
     public_key |-> their_public]

ecdh_x25519(secret, their_public) ==
    [shared_secret |-> diffie_hellman(secret, their_public),
     public_key |-> x25519_public(secret)]

\* mac3_256(&secret_key, nonce): the ephemeral secret of the canister
mac3_256_secret(secret_key, nonce) == 1 + ((secret_key + nonce.id) % (DhModulus - 2))

\* the last byte of a byte string, reduced to a bit
low_bit(b) == IF b = << >> THEN 0 ELSE b[Len(b)] % 2

\* inner_derive_kek with the version of the key in the derivation
inner_derive_kek_value_with_version(spk, key_id) ==
    <<unwrap(state.schnorr_secp256k1_public_key) % 2, state.init_vector % 2,
      low_bit(spk[3]), spk[2], StrRank(spk[1]) % 2, (low_bit(key_id) + spk[5]) % 2>>

\* mac3_256, with key_id as its data, of the public key derived under
\* (init_vector, subject, scope, namespace)
inner_derive_kek_value(spk, key_id) ==
    <<unwrap(state.schnorr_secp256k1_public_key) % 2, state.init_vector % 2,
      low_bit(spk[3]), spk[2], StrRank(spk[1]) % 2, low_bit(key_id)>>

\* cose_aes256_key(kek, key_id).to_vec(): the key followed by its id
cose_aes256_key(secret, key_id) == secret \o key_id

\* get_cose_key_secret(CoseKey::from_slice(data))
get_cose_key_secret(data) == SubSeq(data, 1, KekLen)

ECDHInput_of(client_secret, nonce) ==
    [public_key |-> x25519_public(client_secret), nonce |-> nonce,
     client_secret |-> client_secret]

\* a key delivery suspended at rand_bytes().await: the permission is
\* checked and the kek derived and encoded
EcdhAwaiting(caller, spk, kek, ecdh) ==
    [op |-> "ecdh_cose_encrypted_key", caller |-> caller, spk |-> spk, kek |-> kek,
     ecdh |-> ecdh]

\* the reply, kept with the request it answers and with the shared secret
\* the canister computed (0 when it computed none)
EcdhReply(caller, spk, ecdh, r, shared_secret) ==
    [op |-> "ecdh_cose_encrypted_key", caller |-> caller, spk |-> spk, ok |-> r.ok,
     err |-> r.err, out |-> r.out, input |-> ecdh, shared_secret |-> shared_secret]

\* ecdh_cose_encrypted_key up to its await, with the values it has computed
ecdh_cose_encrypted_key_values(caller, path, ecdh) ==
    LET spk == from_path(path, caller)
        r == kek_checked("ecdh_cose_encrypted_key", caller, path)
    IN IF r.ok
       THEN /\ Cardinality(awaiting) < MaxAwaiting
            /\ awaiting' = awaiting \cup
                  {EcdhAwaiting(caller, spk,
                                cose_aes256_key(inner_derive_kek_value(spk, path.key),
                                                path.key),
                                ecdh)}
            /\ UNCHANGED <<state, NAMESPACES_STORE, SETTINGS_STORE, PAYLOADS_STORE,
                           ret, seen_version, live_at, SIGNATURES, signed, unwrapped, ObjectVars, WasmVars>>
       ELSE /\ ret' = EcdhReply(caller, spk, ecdh, r, 0)
            /\ Commit(r)

\* the client: X25519 of its own secret and the returned public key, then
\* cose_decrypt0 under the subject as AAD and get_cose_key_secret
client_unwrap(ecdh, aad, out) ==
    LET shared == ecdh_x25519(ecdh.client_secret, out.public_key).shared_secret
        r == cose_decrypt0(out.payload, shared, aad)
    IN IF r.ok THEN Some(get_cose_key_secret(unwrap(r.out))) ELSE None

\* the await returns the random bytes, or an error
ecdh_cose_encrypted_key_resume(q, rand) ==
    /\ q \in awaiting
    /\ q.op = "ecdh_cose_encrypted_key"
    /\ LET secret_key == mac3_256_secret(unwrap(rand), q.ecdh.nonce)
           x == ecdh_x25519(secret_key, q.ecdh.public_key)
           out == [payload |-> cose_encrypt0(q.kek, x.shared_secret, q.spk[3],
                                             q.ecdh.nonce, None),
                   public_key |-> x.public_key]
           r == IF is_some(rand)
                THEN Ok(NAMESPACES_STORE, SETTINGS_STORE, PAYLOADS_STORE, out)
                ELSE Err("oracle call failed")
       IN /\ ret' = EcdhReply(q.caller, q.spk, q.ecdh, r,
                               IF r.ok THEN x.shared_secret ELSE 0)
          /\ unwrapped' =
                IF r.ok
                THEN unwrapped \cup
                        {[path |-> v0(q.spk), ecdh |-> q.ecdh,
                          kek |-> client_unwrap(q.ecdh, q.spk[3], out)]}
                ELSE unwrapped
    /\ awaiting' = awaiting \ {q}
    /\ UNCHANGED <<state, NAMESPACES_STORE, SETTINGS_STORE, PAYLOADS_STORE,
                   seen_version, live_at, SIGNATURES, signed, ObjectVars, WasmVars>>

\* the object store and the wasm store as their thread_local! leaves them
ObjectInit ==
    /\ OBJECT_STATE = [managers |-> {}, auditors |-> {},
                       governance_canister |-> None, locations |-> << >>,
                       next_etag |-> 0]
    /\ OBJECT_META = << >>
    /\ OBJECT_DATA = << >>
    /\ MULTIPART_UPLOAD = << >>

WasmInit ==
    /\ INSTALL_LOGS = << >>
    /\ logs_call = << >>

\* the timer init sets: one run of state::init_public_key
InitPublicKey == [op |-> "init_public_key"]

\* init_public_key after its awaits: the keys and the random init_vector
\* are stored together; when rand_bytes fails it panics and stores nothing
init_public_key(q, schnorr_secp256k1_public_key, iv) ==
    /\ q \in awaiting
    /\ q.op = "init_public_key"
    /\ awaiting' = awaiting \ {q}
    /\ state' = IF is_some(iv)
                THEN [state EXCEPT
                         !.schnorr_secp256k1_public_key = schnorr_secp256k1_public_key,
                         !.init_vector = unwrap(iv)]
                ELSE state
    /\ ret' = [op |-> "init_public_key", caller |-> management_canister,
               spk |-> NsKey(""), ok |-> is_some(iv), err |-> "", out |-> NoOut]
    /\ UNCHANGED <<NAMESPACES_STORE, SETTINGS_STORE, PAYLOADS_STORE, seen_version,
                   live_at, SIGNATURES, signed, unwrapped, ObjectVars, WasmVars>>

\* STATE as state::save encodes it and state::load decodes it: every field
state_load(saved) == saved

\* pre_upgrade and post_upgrade of a stopped canister: STATE is saved and
\* loaded, the stable tables stay, the heap (SIGNATURES) starts empty
post_upgrade ==
    /\ awaiting = {}
    /\ state' = state_load(state)
    /\ SIGNATURES' = {}
    /\ ret' = [op |-> "post_upgrade", caller |-> management_canister,
               spk |-> NsKey(""), ok |-> TRUE, err |-> "", out |-> NoOut]
    /\ UNCHANGED <<NAMESPACES_STORE, SETTINGS_STORE, PAYLOADS_STORE, seen_version,
                   live_at, awaiting, signed, unwrapped, ObjectVars, WasmVars>>

----------------------------------------------------------------------------
(* Initial state: the canister after init and init_public_key, one global  *)
(* manager, no namespace                                                   *)

NoRet == [op |-> "init", caller |-> management_canister, spk |-> NsKey(""),
          ok |-> TRUE, err |-> "", out |-> NoOut]

Init ==
    /\ state = [managers |-> {p1}, allowed_apis |-> {},
                schnorr_secp256k1_public_key |-> Some(1), init_vector |-> 1]
    /\ NAMESPACES_STORE = << >>
    /\ SETTINGS_STORE = << >>
    /\ PAYLOADS_STORE = << >>
    /\ ret = NoRet
    /\ seen_version = << >>
    /\ live_at = << >>
    /\ awaiting = {}
    /\ SIGNATURES = {}
    /\ signed = {}
    /\ unwrapped = {}
    /\ ObjectInit
    /\ WasmInit

----------------------------------------------------------------------------
(* SpecSetting: one private namespace "a" managed by p1 with user p2, and  *)
(* the life of a server-owned and a user-owned setting of subject p2.      *)

cbor1 == Bytes(1, 1, "cbor")
cbor2 == Bytes(2, 1, "cbor")
big == Bytes(3, 2, "cbor")
enc1 == Bytes(5, 1, "enc")
dek1 == Bytes(6, 1, "enc")

key1 == <<1>>

SettingCallers == {p1}
SettingNamespaces ==
    {[name |-> "a", visibility |-> 0, managers |-> {p1}, auditors |-> {},
      users |-> {p2}, max_payload_size |-> Some(1),
      desc |-> None, session_expires_in_ms |-> None]}
SettingPaths ==
    {SettingPath("a", FALSE, Some(p2), key1, v) : v \in 0..U32_MAX}
SettingCreateInputs ==
    {[payload |-> p, status |-> None, dek |-> d] :
        p \in {None, Some(cbor1), Some(enc1)}, d \in {None, Some(dek1)}}
SettingUpdateInputs ==
    {[payload |-> p, status |-> st, deprecate_current |-> None, dek |-> d] :
        p \in {None, Some(cbor1), Some(big), Some(enc1)},
        st \in {None, Some(1)},
        d \in {None, Some(dek1)}}
SettingInfoInputs == {[status |-> st] : st \in {Some(-1), Some(0), Some(1)}}

NextSetting ==
    \/ \E c \in SettingCallers, a \in SettingNamespaces : admin_create_namespace(c, a)
    \/ \E c \in SettingCallers, p \in SettingPaths : setting_add_readers(c, p, {p2})
    \/ \E c \in SettingCallers, p \in SettingPaths, i \in SettingCreateInputs :
          setting_create(c, p, i)
    \/ \E c \in SettingCallers, p \in SettingPaths, i \in SettingUpdateInputs :
          setting_update_payload(c, p, i)
    \/ \E c \in SettingCallers, p \in SettingPaths, i \in SettingInfoInputs :
          setting_update_info(c, p, i)
    \/ \E c \in SettingCallers, p \in SettingPaths : setting_delete(c, p)
    \/ \E c \in SettingCallers, p \in SettingPaths : setting_get_archived_payload(c, p)

SpecSetting == Init /\ [][NextSetting]_vars

----------------------------------------------------------------------------
(* SpecNs: namespaces "a" and "b" managed by p1 with user p2, settings of  *)
(* both scopes under subjects on either side of the anonymous principal,   *)
(* and the deletion of settings and namespaces.                            *)

NsCallers == {p1, p2}
NsNames == {"a", "b"}
NsNamespaces ==
    {[name |-> n, visibility |-> 0, managers |-> {p1}, auditors |-> {},
      users |-> {p2}, max_payload_size |-> None,
      desc |-> None, session_expires_in_ms |-> None] : n \in NsNames}
NsPaths ==
    UNION {{SettingPath("a", FALSE, Some(management_canister), key1, v),
            SettingPath("a", FALSE, Some(p2), key1, v),
            SettingPath("a", TRUE, None, key1, v),
            SettingPath("b", FALSE, Some(p2), key1, v)} : v \in 0..1}
NsCreateInputs == {[payload |-> Some(cbor1), status |-> None, dek |-> None]}

NextNs ==
    \/ \E c \in NsCallers, a \in NsNamespaces : admin_create_namespace(c, a)
    \/ \E c \in NsCallers, p \in NsPaths, i \in NsCreateInputs : setting_create(c, p, i)
    \/ \E c \in NsCallers, p \in NsPaths : setting_delete(c, p)
    \/ \E c \in NsCallers, n \in NsNames : namespace_delete(c, n)

SpecNs == Init /\ [][NextNs]_vars

----------------------------------------------------------------------------
(* SpecWrite: namespace "a" managed by p1 with user p2; p3 joins and       *)
(* leaves the managers and the users; the three principals try every       *)
(* write on the server-owned and the user-owned setting of subject p2.     *)

WriteCallers == {p1, p2, p3}
WriteNamespaces ==
    {[name |-> "a", visibility |-> 0, managers |-> {p1}, auditors |-> {},
      users |-> {p2}, max_payload_size |-> None,
      desc |-> None, session_expires_in_ms |-> None]}
WritePaths ==
    {SettingPath("a", u, Some(p2), key1, v) : u \in BOOLEAN, v \in 0..1}
WriteCreateInputs == {[payload |-> Some(cbor1), status |-> None, dek |-> None]}
WriteUpdateInputs ==
    {[payload |-> Some(cbor2), status |-> None, deprecate_current |-> None,
      dek |-> None]}
WriteInfoInputs == {[status |-> Some(0)]}

NextWrite ==
    \/ \E c \in WriteCallers, a \in WriteNamespaces : admin_create_namespace(c, a)
    \/ \E c \in WriteCallers : namespace_add_managers(c, "a", {p3})
    \/ \E c \in WriteCallers : namespace_remove_managers(c, "a", {p3})
    \/ \E c \in WriteCallers : namespace_add_users(c, "a", {p3})
    \/ \E c \in WriteCallers : namespace_remove_users(c, "a", {p3})
    \/ \E c \in WriteCallers, p \in WritePaths, i \in WriteCreateInputs :
          setting_create(c, p, i)
    \/ \E c \in WriteCallers, p \in WritePaths, i \in WriteUpdateInputs :
          setting_update_payload(c, p, i)
    \/ \E c \in WriteCallers, p \in WritePaths, i \in WriteInfoInputs :
          setting_update_info(c, p, i)
    \/ \E c \in WriteCallers, p \in WritePaths : setting_add_readers(c, p, {p3})
    \/ \E c \in WriteCallers, p \in WritePaths : setting_remove_readers(c, p, {p3})
    \/ \E c \in WriteCallers, p \in WritePaths : setting_delete(c, p)

SpecWrite == Init /\ [][NextWrite]_vars

----------------------------------------------------------------------------
(* SpecRead: namespace "a" managed by p1 with user p2, made public or      *)
(* private, archived or not; p3 joins and leaves the auditors and joins    *)
(* the readers of the two settings of subject p2; the three principals     *)
(* read the namespace and the settings.                                    *)

ReadCallers == {p1, p2, p3}
ReadNamespaces ==
    {[name |-> "a", visibility |-> 0, managers |-> {p1}, auditors |-> {},
      users |-> {p2}, max_payload_size |-> None,
      desc |-> None, session_expires_in_ms |-> None]}
ReadNsInputs ==
    {[name |-> "a", desc |-> None, session_expires_in_ms |-> None,
      max_payload_size |-> None, status |-> Some(st),
      visibility |-> None] : st \in {-1, 0}}
    \cup {[name |-> "a", desc |-> None, session_expires_in_ms |-> None,
      max_payload_size |-> None, status |-> None,
           visibility |-> Some(v)] : v \in {0, 1}}
ReadPaths == {SettingPath("a", u, Some(p2), key1, v) : u \in BOOLEAN, v \in 0..1}

NextRead ==
    \/ \E c \in ReadCallers, a \in ReadNamespaces : admin_create_namespace(c, a)
    \/ \E c \in ReadCallers, i \in ReadNsInputs : namespace_update_info(c, i)
    \/ \E c \in ReadCallers : namespace_add_auditors(c, "a", {p3})
    \/ \E c \in ReadCallers : namespace_remove_auditors(c, "a", {p3})
    \/ \E c \in ReadCallers : namespace_get_info(c, "a")
    \/ \E c \in ReadCallers, p \in ReadPaths, i \in WriteCreateInputs :
          setting_create(c, p, i)
    \/ \E c \in ReadCallers, p \in ReadPaths, i \in WriteUpdateInputs :
          setting_update_payload(c, p, i)
    \/ \E c \in ReadCallers, p \in ReadPaths : setting_add_readers(c, p, {p3})
    \/ \E c \in ReadCallers, p \in ReadPaths : setting_get_info(c, p)
    \/ \E c \in ReadCallers, p \in ReadPaths : setting_get(c, p)
    \/ \E c \in ReadCallers, p \in ReadPaths : setting_get_archived_payload(c, p)

SpecRead == Init /\ [][NextRead]_vars

----------------------------------------------------------------------------
(* SpecKek: namespace "a" managed by p1 with user p2, archived or not; p1  *)
(* puts p3 in and out of the auditors and of the readers of the            *)
(* server-owned setting of subject p2; the three principals ask for the    *)
(* key of the two settings of subject p2 and of a user-owned setting of    *)
(* their own.                                                              *)

KekCallers == {p1, p2, p3}
KekManagers == {p1}
KekNsInputs ==
    {[name |-> "a", desc |-> None, session_expires_in_ms |-> None,
      max_payload_size |-> None, status |-> Some(st),
      visibility |-> None] : st \in {-1, 0}}
KekPaths ==
    {SettingPath("a", u, Some(p2), key1, 0) : u \in BOOLEAN}
    \cup {SettingPath("a", TRUE, None, key1, 0)}
KekSettingPaths == {SettingPath("a", FALSE, Some(p2), key1, v) : v \in 0..1}
KekOps == {"ecdh_cose_encrypted_key", "vetkd_public_key", "vetkd_encrypted_key"}
KekRequests ==
    {Awaiting(op, c, from_path(p, c)) : op \in KekOps, c \in KekCallers, p \in KekPaths}

NextKek ==
    \/ \E c \in KekManagers, a \in ReadNamespaces : admin_create_namespace(c, a)
    \/ \E c \in KekManagers, i \in KekNsInputs : namespace_update_info(c, i)
    \/ \E c \in KekManagers : namespace_add_auditors(c, "a", {p3})
    \/ \E c \in KekManagers : namespace_remove_auditors(c, "a", {p3})
    \/ \E c \in KekManagers, p \in KekSettingPaths, i \in WriteCreateInputs :
          setting_create(c, p, i)
    \/ \E c \in KekManagers, p \in KekSettingPaths : setting_add_readers(c, p, {p3})
    \/ \E c \in KekManagers, p \in KekSettingPaths : setting_remove_readers(c, p, {p3})
    \/ \E c \in KekCallers, p \in KekPaths : ecdh_cose_encrypted_key(c, p)
    \/ \E c \in KekCallers, p \in KekPaths : vetkd_public_key(c, p)
    \/ \E c \in KekCallers, p \in KekPaths : vetkd_encrypted_key(c, p)
    \/ \E q \in KekRequests, delivered \in BOOLEAN : oracle_reply(q, delivered)

SpecKek == Init /\ [][NextKek]_vars

----------------------------------------------------------------------------
(* SpecUpdate: namespace "a" managed by p1 with user p2; p1 and p2 create  *)
(* and update the server-owned setting of subject p2 through the handlers  *)
(* of api_update.rs, with and without an ECDH exchange, and up to          *)
(* MaxInFlight requests are suspended at their awaits together.            *)

UpdateCallers == {p1, p2}
UpdatePaths == {SettingPath("a", FALSE, Some(p2), key1, 0)}
UpdateECDH == {None, Some(ECDHInput(TRUE))}
UpdateCreateInputs ==
    {[status |-> None, payload |-> p] : p \in {None, Some(cbor1)}}
UpdatePayloadInputs ==
    {[version |-> v, payload |-> p, status |-> None] :
        v \in 1..U32_MAX, p \in {cbor1, cbor2}}
UpdateRequests ==
    {[InFlight(op, c, path_key(p, c), i) EXCEPT !.overtaken = o] :
        op \in {"create_setting"}, c \in UpdateCallers, p \in UpdatePaths,
        i \in UpdateCreateInputs, o \in {FALSE}}
    \cup {[InFlight(op, c, path_key(p, c), i) EXCEPT !.overtaken = o] :
        op \in {"update_setting_payload"}, c \in UpdateCallers, p \in UpdatePaths,
        i \in UpdatePayloadInputs, o \in BOOLEAN}

NextUpdate ==
    \/ \E c \in UpdateCallers, a \in SettingNamespaces : admin_create_namespace(c, a)
    \/ \E c \in UpdateCallers, p \in UpdatePaths, i \in UpdateCreateInputs,
          e \in UpdateECDH : api_update_create_setting(c, p, i, e)
    \/ \E q \in UpdateRequests, delivered \in BOOLEAN :
          api_update_create_setting_resume(q, delivered)
    \/ \E c \in UpdateCallers, p \in UpdatePaths, i \in UpdatePayloadInputs,
          e \in UpdateECDH : api_update_update_setting_payload(c, p, i, e)
    \/ \E q \in UpdateRequests, delivered \in BOOLEAN :
          api_update_update_setting_payload_resume(q, delivered)

SpecUpdate == Init /\ [][NextUpdate]_vars

----------------------------------------------------------------------------
(* SpecMembers: namespace "a" created by the global manager p1 with any    *)
(* of p2 and the anonymous principal as auditor or user; p1, p2 and the    *)
(* anonymous principal change its status, its member sets and its          *)
(* delegators, and delete it.                                              *)

MembersCallers == {p1, p2, ANONYMOUS}
MembersNamespaces ==
    {[name |-> "a", visibility |-> 0, managers |-> {p1}, auditors |-> au,
      users |-> us, max_payload_size |-> None,
      desc |-> None, session_expires_in_ms |-> None] :
        au \in {{}, {ANONYMOUS}}, us \in {{p2}, {p2, ANONYMOUS}}}
    \cup {[name |-> "a", visibility |-> 0, managers |-> {p1, ANONYMOUS},
           auditors |-> {}, users |-> {}, max_payload_size |-> None,
      desc |-> None, session_expires_in_ms |-> None]}
MembersNsInputs ==
    {[name |-> "a", desc |-> None, session_expires_in_ms |-> None,
      max_payload_size |-> None, status |-> Some(st),
      visibility |-> None] : st \in -1..1}
MembersArgs == {{p2}, {ANONYMOUS}, {}}
MembersDelegators ==
    {[ns |-> "a", name |-> "n", delegators |-> d] : d \in MembersArgs}

NextMembers ==
    \/ \E c \in MembersCallers, a \in MembersNamespaces : admin_create_namespace(c, a)
    \/ \E c \in MembersCallers, i \in MembersNsInputs : namespace_update_info(c, i)
    \/ \E c \in MembersCallers, a \in MembersArgs : namespace_add_managers(c, "a", a)
    \/ \E c \in MembersCallers, a \in MembersArgs : namespace_remove_managers(c, "a", a)
    \/ \E c \in MembersCallers, a \in MembersArgs : namespace_add_auditors(c, "a", a)
    \/ \E c \in MembersCallers, a \in MembersArgs : namespace_remove_auditors(c, "a", a)
    \/ \E c \in MembersCallers, a \in MembersArgs : namespace_add_users(c, "a", a)
    \/ \E c \in MembersCallers, a \in MembersArgs : namespace_remove_users(c, "a", a)
    \/ \E c \in MembersCallers, i \in MembersDelegators : namespace_add_delegator(c, i)
    \/ \E c \in MembersCallers, i \in MembersDelegators : namespace_remove_delegator(c, i)
    \/ \E c \in MembersCallers : namespace_delete(c, "a")

SpecMembers == Init /\ [][NextMembers]_vars

----------------------------------------------------------------------------
(* SpecReadOnly: namespace "a" managed by p1 with user p2; p1 and p2 set   *)
(* its status to 1 and back, change its description, limits, visibility,  *)
(* member sets and delegators, delete it, create it again and top it up.   *)

ReadOnlyCallers == {p1, p2}
ReadOnlyNsInputs ==
    {[name |-> "a", desc |-> None, session_expires_in_ms |-> None,
      max_payload_size |-> None, status |-> Some(st), visibility |-> None] :
        st \in 0..1}
    \cup {[name |-> "a", desc |-> Some("d"), session_expires_in_ms |-> Some(0),
           max_payload_size |-> Some(1), status |-> None, visibility |-> Some(1)]}
ReadOnlyArgs == {{p2}}
ReadOnlyDelegators == {[ns |-> "a", name |-> "n", delegators |-> {p2}]}
ReadOnlyCycles == {MIN_CYCLES - 1, MIN_CYCLES, 2 * MIN_CYCLES}

NextReadOnly ==
    \/ \E c \in ReadOnlyCallers, a \in WriteNamespaces : admin_create_namespace(c, a)
    \/ \E c \in ReadOnlyCallers, i \in ReadOnlyNsInputs : namespace_update_info(c, i)
    \/ \E c \in ReadOnlyCallers, a \in ReadOnlyArgs : namespace_add_managers(c, "a", a)
    \/ \E c \in ReadOnlyCallers, a \in ReadOnlyArgs : namespace_remove_managers(c, "a", a)
    \/ \E c \in ReadOnlyCallers, a \in ReadOnlyArgs : namespace_add_auditors(c, "a", a)
    \/ \E c \in ReadOnlyCallers, a \in ReadOnlyArgs : namespace_remove_auditors(c, "a", a)
    \/ \E c \in ReadOnlyCallers, a \in ReadOnlyArgs : namespace_add_users(c, "a", a)
    \/ \E c \in ReadOnlyCallers, a \in ReadOnlyArgs : namespace_remove_users(c, "a", a)
    \/ \E c \in ReadOnlyCallers, i \in ReadOnlyDelegators : namespace_add_delegator(c, i)
    \/ \E c \in ReadOnlyCallers, i \in ReadOnlyDelegators : namespace_remove_delegator(c, i)
    \/ \E c \in ReadOnlyCallers : namespace_delete(c, "a")
    \/ \E c \in ReadOnlyCallers, cycles \in ReadOnlyCycles, available \in ReadOnlyCycles :
          namespace_top_up(c, "a", cycles, available)

SpecReadOnly == Init /\ [][NextReadOnly]_vars

----------------------------------------------------------------------------
(* SpecManagers: namespace "a" created with manager p1; p1 and p2 add and  *)
(* remove managers, themselves included, change the status and delete.     *)

ManagersCallers == {p1, p2}
ManagersArgs == {{p1}, {p2}, {p1, p2}, {}}

NextManagers ==
    \/ \E c \in ManagersCallers, a \in WriteNamespaces : admin_create_namespace(c, a)
    \/ \E c \in ManagersCallers, i \in MembersNsInputs : namespace_update_info(c, i)
    \/ \E c \in ManagersCallers, a \in ManagersArgs : namespace_add_managers(c, "a", a)
    \/ \E c \in ManagersCallers, a \in ManagersArgs : namespace_remove_managers(c, "a", a)
    \/ \E c \in ManagersCallers : namespace_delete(c, "a")

SpecManagers == Init /\ [][NextManagers]_vars

----------------------------------------------------------------------------
(* SpecFrozen: namespace "a" managed by p1 with user p2, whose manager     *)
(* archives it, reopens it and makes it read-only while p1 and p2 try      *)
(* every write on the server-owned and the user-owned setting of p2.       *)

FrozenCallers == {p1, p2}

NextFrozen ==
    \/ \E c \in FrozenCallers, a \in WriteNamespaces : admin_create_namespace(c, a)
    \/ \E c \in FrozenCallers, i \in MembersNsInputs : namespace_update_info(c, i)
    \/ \E c \in FrozenCallers, p \in WritePaths, i \in WriteCreateInputs :
          setting_create(c, p, i)
    \/ \E c \in FrozenCallers, p \in WritePaths, i \in WriteUpdateInputs :
          setting_update_payload(c, p, i)
    \/ \E c \in FrozenCallers, p \in WritePaths, i \in WriteInfoInputs :
          setting_update_info(c, p, i)
    \/ \E c \in FrozenCallers, p \in WritePaths : setting_add_readers(c, p, {p3})
    \/ \E c \in FrozenCallers, p \in WritePaths : setting_remove_readers(c, p, {p3})
    \/ \E c \in FrozenCallers, p \in WritePaths : setting_delete(c, p)

SpecFrozen == Init /\ [][NextFrozen]_vars

----------------------------------------------------------------------------
(* SpecIdentity: namespace "a" managed by p1, whose manager sets the       *)
(* session length and the delegators of the fixed identity "n"; p1 and p2  *)
(* ask for delegations of two session keys at two times, and anyone looks  *)
(* delegations up.                                                         *)

IdentityCallers == {p1, p2}
IdentityNamespaces ==
    {[name |-> "a", visibility |-> 0, managers |-> {p1}, auditors |-> {},
      users |-> {}, max_payload_size |-> None, desc |-> None,
      session_expires_in_ms |-> None]}
IdentityNsInputs ==
    {[name |-> "a", desc |-> None, session_expires_in_ms |-> Some(se),
      max_payload_size |-> None, status |-> None, visibility |-> None] :
        se \in {0, SESSION_EXPIRES_IN_MS}}
IdentityDelegators == {[ns |-> "a", name |-> "n", delegators |-> {p2}]}
IdentityKeys == {PublicKey(1, TRUE), PublicKey(2, TRUE), PublicKey(3, FALSE)}
IdentityNames == {"n", "N", "m"}
IdentityTimes == {1, 2}
\* requests signed by the session key over the caller's own challenge, and
\* requests that replay the challenge p2 signed
IdentitySignInputs(caller) ==
    {[ns |-> "a", name |-> n, pubkey |-> k,
      sig |-> Signature(k, delegation_challenge("a", to_ascii_lowercase(n), c))] :
        n \in IdentityNames, k \in IdentityKeys, c \in {caller, p2}}
IdentitySeeds == {identity_seed("a", "n"), identity_seed("a", "m")}
IdentityExpirations ==
    {sign_expiration(t, SESSION_EXPIRES_IN_MS) : t \in IdentityTimes}

NextIdentity ==
    \/ \E c \in IdentityCallers, a \in IdentityNamespaces : admin_create_namespace(c, a)
    \/ \E c \in IdentityCallers, a \in IdentityNsInputs : namespace_update_info(c, a)
    \/ \E c \in IdentityCallers, i \in IdentityDelegators : namespace_add_delegator(c, i)
    \/ \E c \in IdentityCallers, i \in IdentityDelegators : namespace_remove_delegator(c, i)
    \/ \E c \in IdentityCallers, t \in IdentityTimes, all \in BOOLEAN :
          \E i \in IdentitySignInputs(c) :
             namespace_sign_delegation(c, i, t, IF all THEN SIGNATURES ELSE {})
    \/ \E c \in IdentityCallers, sd \in IdentitySeeds, k \in IdentityKeys,
          e \in IdentityExpirations : get_delegation(c, sd, k, e)

SpecIdentity == Init /\ [][NextIdentity]_vars

----------------------------------------------------------------------------
(* SpecExpiry: the manager sets session_expires_in_ms to zero, to the      *)
(* default and to the largest u64, and the delegator asks for delegations. *)

ExpiryCallers == {p1, p2}
ExpirySessions == {0, SESSION_EXPIRES_IN_MS, TIME_MAX}
ExpiryNamespaces ==
    {[name |-> "a", visibility |-> 0, managers |-> {p1}, auditors |-> {},
      users |-> {}, max_payload_size |-> None, desc |-> None,
      session_expires_in_ms |-> se] : se \in {None, Some(TIME_MAX)}}
ExpiryNsInputs ==
    {[name |-> "a", desc |-> None, session_expires_in_ms |-> Some(se),
      max_payload_size |-> None, status |-> None, visibility |-> None] :
        se \in ExpirySessions}
ExpiryTimes == {1, 2}
ExpirySignInputs(caller) ==
    {[ns |-> "a", name |-> "n", pubkey |-> k,
      sig |-> Signature(k, delegation_challenge("a", "n", caller))] :
        k \in {PublicKey(1, TRUE), PublicKey(2, TRUE)}}

NextExpiry ==
    \/ \E c \in ExpiryCallers, a \in ExpiryNamespaces : admin_create_namespace(c, a)
    \/ \E c \in ExpiryCallers, a \in ExpiryNsInputs : namespace_update_info(c, a)
    \/ \E c \in ExpiryCallers, i \in IdentityDelegators : namespace_add_delegator(c, i)
    \/ \E c \in ExpiryCallers, t \in ExpiryTimes :
          \E i \in ExpirySignInputs(c) : namespace_sign_delegation(c, i, t, {})

SpecExpiry == Init /\ [][NextExpiry]_vars

----------------------------------------------------------------------------
(* SpecCose: every plaintext of at most MaxPlainLen bytes is encrypted     *)
(* under two keys, two nonces and two AADs; the item, or the item with one *)
(* byte of its ciphertext altered, is decrypted under each key and AAD.    *)

MaxPlainLen == 2

CosePlaintexts ==
    UNION {[1..n -> 0..(ByteBound - 1)] : n \in 0..MaxPlainLen}
CoseSecrets == {1, 2}
CoseAads == {<< >>, p2}
CoseNonces == {Nonce(1, 12), Nonce(2, 12)}
\* what an altered tag is the tag of: the same ciphertext bytes under a
\* key, a nonce and an AAD, one of them a key nobody holds
CoseForged ==
    {[secret |-> k, nonce |-> n, aad |-> a] :
        k \in CoseSecrets \cup {0}, n \in CoseNonces, a \in CoseAads}

NextCose ==
    \/ \E m \in CosePlaintexts, k \in CoseSecrets, a \in CoseAads, n \in CoseNonces :
          cose_encrypt0_call(m, k, a, n)
    \/ \E i \in 1..(MaxPlainLen + 1), b \in 0..(ByteBound - 1), f \in CoseForged :
          alter_ciphertext(i, b, f)
    \/ \E k \in CoseSecrets, a \in CoseAads : cose_decrypt0_call(k, a)

SpecCose == Init /\ [][NextCose]_vars

----------------------------------------------------------------------------
(* SpecIv: the items of SpecCose with the iv of the unprotected header cut *)
(* to 0 or 11 bytes or extended to 13 or 24, then decrypted.               *)

IvLens == {0, 11, 13, 24}

NextIv ==
    \/ \E m \in CosePlaintexts, k \in CoseSecrets, a \in CoseAads, n \in CoseNonces :
          cose_encrypt0_call(m, k, a, n)
    \/ \E len \in IvLens : alter_iv(len)
    \/ \E k \in CoseSecrets, a \in CoseAads : cose_decrypt0_call(k, a)

SpecIv == Init /\ [][NextIv]_vars

----------------------------------------------------------------------------
(* SpecEcdh: the canister from init on.  The timer of init stores the key  *)
(* material once; p1 creates namespace "a", archives and reopens it; p1    *)
(* and p2 ask for the key of server-owned settings of subject p2, at two   *)
(* versions of the path, each with its client secret and nonce; the        *)
(* canister is upgraded between requests.                                  *)

EcdhCallers == {p1, p2}
EcdhNsInputs ==
    {[name |-> "a", desc |-> None, session_expires_in_ms |-> None,
      max_payload_size |-> None, status |-> Some(st),
      visibility |-> None] : st \in {-1, 0}}
EcdhPaths ==
    {SettingPath("a", FALSE, Some(p2), k, v) : k \in {key1, << >>}, v \in 0..1}
EcdhInputs == {ECDHInput_of(1, Nonce(1, 12)), ECDHInput_of(2, Nonce(2, 12))}
EcdhRands == {None, Some(1), Some(2)}
EcdhIvs == {None, Some(0), Some(1)}
EcdhKeks == [1..KekLen -> 0..1]
EcdhRequests ==
    {EcdhAwaiting(c, from_path(p, c), cose_aes256_key(k, p.key), e) :
        c \in EcdhCallers, p \in EcdhPaths, e \in EcdhInputs, k \in EcdhKeks}

InitEcdh ==
    /\ state = [managers |-> {p1}, allowed_apis |-> {},
                schnorr_secp256k1_public_key |-> None, init_vector |-> 0]
    /\ NAMESPACES_STORE = << >>
    /\ SETTINGS_STORE = << >>
    /\ PAYLOADS_STORE = << >>
    /\ ret = NoRet
    /\ seen_version = << >>
    /\ live_at = << >>
    /\ awaiting = {InitPublicKey}
    /\ SIGNATURES = {}
    /\ signed = {}
    /\ unwrapped = {}
    /\ ObjectInit
    /\ WasmInit

NextEcdh ==
    \/ \E pk \in {None, Some(1)}, iv \in EcdhIvs : init_public_key(InitPublicKey, pk, iv)
    \/ post_upgrade
    \/ \E c \in KekManagers, a \in ReadNamespaces : admin_create_namespace(c, a)
    \/ \E c \in KekManagers, i \in EcdhNsInputs : namespace_update_info(c, i)
    \/ \E c \in EcdhCallers, p \in EcdhPaths, e \in EcdhInputs :
          ecdh_cose_encrypted_key_values(c, p, e)
    \/ \E q \in EcdhRequests, rand \in EcdhRands : ecdh_cose_encrypted_key_resume(q, rand)

SpecEcdh == InitEcdh /\ [][NextEcdh]_vars

----------------------------------------------------------------------------
(* SpecList: namespaces "a" and "b" managed by p1 with user p2; settings   *)
(* of both scopes under the management canister and under p2, with a short *)
(* key and with the key of MAX_KEY_LEN bytes 255; every listing.           *)

ListCallers == {p1, p2}
ListNames == {"a", "b"}
ListKeys == {key1, MAX_KEY}
ListSubjects == {None, Some(management_canister), Some(p2)}
ListPaths ==
    {SettingPath("a", FALSE, Some(management_canister), key1, 0),
     SettingPath("a", FALSE, Some(p2), key1, 0),
     SettingPath("a", FALSE, Some(p2), MAX_KEY, 0),
     SettingPath("a", TRUE, None, key1, 0),
     SettingPath("b", FALSE, Some(p2), key1, 0)}

NextList ==
    \/ \E c \in ListCallers, a \in NsNamespaces : admin_create_namespace(c, a)
    \/ \E c \in ListCallers, p \in ListPaths, i \in NsCreateInputs : setting_create(c, p, i)
    \/ \E c \in ListCallers, p \in ListPaths : setting_delete(c, p)
    \/ \E c \in ListCallers, n \in ListNames, u \in BOOLEAN, s \in ListSubjects :
          namespace_list_setting_keys(c, n, u, s)

SpecList == Init /\ [][NextList]_vars

----------------------------------------------------------------------------
(* SpecRoles: namespace a with manager p1, user p2 and p3 as auditor, as   *)
(* user or without a role; the manager archives, reopens, freezes and      *)
(* publishes it; settings of both scopes for the subjects p2 and p3; every *)
(* caller asks for every listing.                                          *)

RolesCallers == {p1, p2, p3}
RolesNamespaces ==
    {[name |-> "a", visibility |-> 0, managers |-> {p1}, auditors |-> au,
      users |-> us, max_payload_size |-> None,
      desc |-> None, session_expires_in_ms |-> None] :
        au \in {{}, {p3}}, us \in {{p2}, {p2, p3}}}
RolesNsInputs ==
    {[name |-> "a", desc |-> None, session_expires_in_ms |-> None,
      max_payload_size |-> None, status |-> st, visibility |-> vi] :
        st \in {None, Some(-1), Some(0), Some(1)}, vi \in {None, Some(1)}}
RolesSubjects == {None, Some(p2), Some(p3)}
RolesPaths ==
    {SettingPath("a", u, s, key1, 0) : u \in BOOLEAN, s \in RolesSubjects}

NextRoles ==
    \/ \E c \in RolesCallers, a \in RolesNamespaces : admin_create_namespace(c, a)
    \/ \E c \in RolesCallers, a \in RolesNsInputs : namespace_update_info(c, a)
    \/ \E c \in RolesCallers, p \in RolesPaths, i \in NsCreateInputs :
          setting_create(c, p, i)
    \/ \E c \in RolesCallers, u \in BOOLEAN, s \in RolesSubjects :
          namespace_list_setting_keys(c, "a", u, s)

SpecRoles == Init /\ [][NextRoles]_vars

----------------------------------------------------------------------------
(* The object store: ic_object_store_canister.  An object is its bytes and *)
(* its metadata, of which size and version are kept; the paths of the      *)
(* model are valid paths and its payloads are within the size limits.      *)

ObjectMetadata(size, version) == [size |-> size, version |-> version]

\* Result of a call of the object module, with the tables as it leaves them
ObjOk(st, om, od, mu, out) ==
    [ok |-> TRUE, err |-> "", st |-> st, om |-> om, od |-> od, mu |-> mu,
     out |-> out]
ObjErr(e) ==
    [ok |-> FALSE, err |-> e, st |-> OBJECT_STATE, om |-> OBJECT_META,
     od |-> OBJECT_DATA, mu |-> MULTIPART_UPLOAD, out |-> None]

is_writer(caller) == caller \in OBJECT_STATE.managers

is_reader(caller) ==
    caller \in OBJECT_STATE.managers \/ caller \in OBJECT_STATE.auditors

\* BTreeMap::entry(path).or_insert(v): the table with v at path when path
\* had no entry, unchanged when it had one
entry_or_insert(locations, path, v) ==
    IF contains_key(locations, path) THEN locations ELSE insert(locations, path, v)

\* etag.to_string()
etag_to_string(etag) == etag

\* PutOptions: a mode, and the e_tag and version of UpdateVersion
PutOptions(mode, e_tag, version) == [mode |-> mode, e_tag |-> e_tag, version |-> version]

PutResult(etag) == [e_tag |-> Some(etag_to_string(etag)), version |-> None]

object_put_opts(path, payload, opts) ==
    LET s == OBJECT_STATE
        meta == ObjectMetadata(Len(payload), None)
    IN CASE opts.mode = "Overwrite" ->
              LET locations == entry_or_insert(s.locations, path, <<s.next_etag, TRUE>>)
                  etag == locations[path][1]
              IN ObjOk([s EXCEPT !.locations = locations,
                                 !.next_etag = IF etag = @ THEN @ + 1 ELSE @],
                       insert(OBJECT_META, etag, meta),
                       insert(OBJECT_DATA, etag, payload),
                       MULTIPART_UPLOAD, PutResult(etag))
         [] opts.mode = "Create" ->
              IF contains_key(s.locations, path) THEN ObjErr("AlreadyExists")
              ELSE LET etag == s.next_etag
                   IN ObjOk([s EXCEPT !.locations = insert(@, path, <<etag, TRUE>>),
                                      !.next_etag = @ + 1],
                            insert(OBJECT_META, etag, meta),
                            insert(OBJECT_DATA, etag, payload),
                            MULTIPART_UPLOAD, PutResult(etag))
         [] OTHER ->
              IF ~contains_key(s.locations, path)
              THEN ObjErr("Precondition: object not found")
              ELSE LET etag == s.locations[path][1]
                   IN IF ~is_some(opts.e_tag)
                      THEN ObjErr("Generic: e_tag required for conditional update")
                      ELSE IF etag_to_string(etag) # unwrap(opts.e_tag)
                      THEN ObjErr("Precondition: e_tag does not match")
                      ELSE ObjOk(s,
                                 insert(OBJECT_META, etag,
                                        ObjectMetadata(Len(payload), opts.version)),
                                 insert(OBJECT_DATA, etag, payload),
                                 MULTIPART_UPLOAD, PutResult(etag))

object_delete(path) ==
    LET s == OBJECT_STATE
    IN IF contains_key(s.locations, path)
       THEN LET etag == s.locations[path][1]
            IN ObjOk([s EXCEPT !.locations = remove(@, path)],
                     remove(OBJECT_META, etag), remove(OBJECT_DATA, etag),
                     remove(MULTIPART_UPLOAD, etag), None)
       ELSE ObjOk(s, OBJECT_META, OBJECT_DATA, MULTIPART_UPLOAD, None)

\* om.get(&from).unwrap() and od.get(&from).unwrap() panic on a missing
\* entry: the call traps and changes nothing
object_copy(from, to) ==
    LET s == OBJECT_STATE
    IN IF ~contains_key(s.locations, from) THEN ObjErr("NotFound")
       ELSE IF ~s.locations[from][2] THEN ObjErr("Precondition: upload not completed")
       ELSE LET from_etag == s.locations[from][1]
                locations == entry_or_insert(s.locations, to, <<s.next_etag, TRUE>>)
                etag == locations[to][1]
            IN IF ~contains_key(OBJECT_META, from_etag) \/ ~contains_key(OBJECT_DATA, from_etag)
               THEN ObjErr("trap")
               ELSE ObjOk([s EXCEPT !.locations = locations,
                                    !.next_etag = IF etag = @ THEN @ + 1 ELSE @],
                          insert(OBJECT_META, etag, OBJECT_META[from_etag]),
                          insert(OBJECT_DATA, etag, OBJECT_DATA[from_etag]),
                          MULTIPART_UPLOAD, None)

\* the entry of to takes the etag of from; whether it is completed is what
\* the entry held, or what from held when to had no entry
object_rename(from, to) ==
    LET s == OBJECT_STATE
    IN IF ~contains_key(s.locations, from) THEN ObjErr("NotFound")
       ELSE IF ~s.locations[from][2] THEN ObjErr("Precondition: upload not completed")
       ELSE LET moved == s.locations[from]
                removed == remove(s.locations, from)
                locations == entry_or_insert(removed, to, moved)
                etag == locations[to][1]
            IN IF etag # moved[1]
               THEN ObjOk([s EXCEPT !.locations =
                                      [locations EXCEPT ![to] = <<moved[1], @[2]>>]],
                          remove(OBJECT_META, etag), remove(OBJECT_DATA, etag),
                          MULTIPART_UPLOAD, None)
               ELSE ObjOk([s EXCEPT !.locations = locations],
                          OBJECT_META, OBJECT_DATA, MULTIPART_UPLOAD, None)

object_create_multipart(path) ==
    LET s == OBJECT_STATE
    IN IF contains_key(s.locations, path) THEN ObjErr("AlreadyExists")
       ELSE LET etag == s.next_etag
            IN ObjOk([s EXCEPT !.locations = insert(@, path, <<etag, FALSE>>),
                               !.next_etag = @ + 1],
                     insert(OBJECT_META, etag, ObjectMetadata(0, None)),
                     OBJECT_DATA, MULTIPART_UPLOAD, Some(etag_to_string(etag)))

\* the checks put_part, complete_multipart and abort_multipart share
upload_in_progress(path, id) ==
    LET s == OBJECT_STATE
    IN IF ~contains_key(s.locations, path) THEN "NotFound"
       ELSE IF etag_to_string(s.locations[path][1]) # id
       THEN "Precondition: upload not found"
       ELSE IF s.locations[path][2] THEN "Precondition: upload already completed"
       ELSE ""

\* parts.resize(part_idx + 1, None) when it is shorter; parts[part_idx] set
object_put_part(path, id, part_idx, payload) ==
    LET e == upload_in_progress(path, id)
    IN IF e # "" THEN ObjErr(e)
       ELSE LET etag == OBJECT_STATE.locations[path][1]
                parts == IF contains_key(MULTIPART_UPLOAD, etag)
                         THEN MULTIPART_UPLOAD[etag] ELSE << >>
                resized == [i \in 1..Max(Len(parts), part_idx + 1) |->
                               IF i <= Len(parts) THEN parts[i] ELSE None]
            IN ObjOk(OBJECT_STATE, OBJECT_META, OBJECT_DATA,
                     insert(MULTIPART_UPLOAD, etag,
                            [resized EXCEPT ![part_idx + 1] = Some(payload)]),
                     Some(<<id, part_idx>>))

RECURSIVE concat_parts(_)
concat_parts(parts) ==
    IF parts = << >> THEN << >>
    ELSE unwrap(parts[1]) \o concat_parts(SubSeq(parts, 2, Len(parts)))

\* the parts are removed from MULTIPART_UPLOAD before they are examined;
\* an error is returned from the update call, which commits what was done
object_complete_multipart(path, id) ==
    LET e == upload_in_progress(path, id)
    IN IF e # "" THEN ObjErr(e)
       ELSE LET s == OBJECT_STATE
                etag == s.locations[path][1]
            IN IF ~contains_key(MULTIPART_UPLOAD, etag)
               THEN ObjErr("Precondition: upload parts not found")
               ELSE LET parts == MULTIPART_UPLOAD[etag]
                        mu == remove(MULTIPART_UPLOAD, etag)
                    IN IF \E i \in 1..Len(parts) : ~is_some(parts[i])
                       THEN [ObjErr("Precondition: missing part") EXCEPT !.mu = mu]
                       ELSE LET payload == concat_parts(parts)
                            IN ObjOk([s EXCEPT !.locations = insert(@, path, <<etag, TRUE>>)],
                                     insert(OBJECT_META, etag,
                                            [OBJECT_META[etag] EXCEPT !.size = Len(payload)]),
                                     insert(OBJECT_DATA, etag, payload),
                                     mu, PutResult(etag))

object_abort_multipart(path, id) ==
    LET e == upload_in_progress(path, id)
    IN IF e # "" THEN ObjErr(e)
       ELSE LET s == OBJECT_STATE
                etag == s.locations[path][1]
            IN ObjOk([s EXCEPT !.locations = remove(@, path)],
                     OBJECT_META, OBJECT_DATA, remove(MULTIPART_UPLOAD, etag), None)

\* ObjectMeta of the object at path
ObjectMeta(path, etag, me) ==
    [location |-> path, size |-> me.size, e_tag |-> Some(etag_to_string(etag)),
     version |-> me.version]

\* get_opts with the default GetOptions: no precondition, no range
object_get_opts(path) ==
    LET s == OBJECT_STATE
    IN IF ~contains_key(s.locations, path) THEN ObjErr("NotFound")
       ELSE IF ~s.locations[path][2] THEN ObjErr("Precondition: upload not completed")
       ELSE LET etag == s.locations[path][1]
            IN IF ~contains_key(OBJECT_META, etag) \/ ~contains_key(OBJECT_DATA, etag)
               THEN ObjErr("trap")
               ELSE ObjOk(s, OBJECT_META, OBJECT_DATA, MULTIPART_UPLOAD,
                          Some([meta |-> ObjectMeta(path, etag, OBJECT_META[etag]),
                                payload |-> OBJECT_DATA[etag]]))

object_head(path) ==
    LET s == OBJECT_STATE
    IN IF ~contains_key(s.locations, path) THEN ObjErr("NotFound")
       ELSE IF ~s.locations[path][2] THEN ObjErr("Precondition: upload not completed")
       ELSE LET etag == s.locations[path][1]
            IN IF ~contains_key(OBJECT_META, etag) THEN ObjErr("trap")
               ELSE ObjOk(s, OBJECT_META, OBJECT_DATA, MULTIPART_UPLOAD,
                          Some([meta |-> ObjectMeta(path, etag, OBJECT_META[etag])]))

\* the endpoints of api.rs and api_admin.rs of the object store

\* etags handed out before the model stops creating objects: next_etag is
\* a u64 that a canister does not exhaust
MaxEtag == 2

\* the controllers the system holds for the canister
Controllers == {p1}

is_controller(caller) ==
    caller \in Controllers \/ OBJECT_STATE.governance_canister = Some(caller)

\* the reply of an endpoint, kept with the path it is about and with the
\* rest of the request: mode and payload of a put, the source of a copy
ObjectReply(op, caller, path, arg, r) ==
    [op |-> op, caller |-> caller, path |-> path, arg |-> arg, ok |-> r.ok,
     err |-> r.err, out |-> r.out]

ObjectCommit(r) ==
    /\ OBJECT_STATE' = r.st
    /\ OBJECT_META' = r.om
    /\ OBJECT_DATA' = r.od
    /\ MULTIPART_UPLOAD' = r.mu
    /\ UNCHANGED <<CoseVars, WasmVars>>

\* the checks copy and rename make before the store call
from_to_checked(caller, from, to) ==
    IF ~is_writer(caller) THEN "PermissionDenied: no write permission"
    ELSE IF from = to THEN "Precondition: location 'to' is equal to 'from'"
    ELSE ""

object_admin_add_managers(caller, args) ==
    LET r == IF ~is_controller(caller) THEN ObjErr("user is not a controller")
             ELSE IF ~validate_principals(args) THEN ObjErr("invalid principals")
             ELSE ObjOk([OBJECT_STATE EXCEPT !.managers = @ \cup args],
                        OBJECT_META, OBJECT_DATA, MULTIPART_UPLOAD, None)
    IN /\ ret' = ObjectReply("admin_add_managers", caller, "", None, r)
       /\ ObjectCommit(r)

put_opts(caller, path, payload, opts) ==
    /\ OBJECT_STATE.next_etag < MaxEtag
    /\ LET r == IF ~is_writer(caller) THEN ObjErr("PermissionDenied: no write permission")
                ELSE object_put_opts(path, payload, opts)
       IN /\ ret' = ObjectReply("put_opts", caller, path,
                               [mode |-> opts.mode, payload |-> payload], r)
          /\ ObjectCommit(r)

delete(caller, path) ==
    LET r == IF ~is_writer(caller) THEN ObjErr("PermissionDenied: no write permission")
             ELSE object_delete(path)
    IN /\ ret' = ObjectReply("delete", caller, path, None, r)
       /\ ObjectCommit(r)

copy(caller, from, to) ==
    /\ OBJECT_STATE.next_etag < MaxEtag
    /\ LET e == from_to_checked(caller, from, to)
           r == IF e # "" THEN ObjErr(e) ELSE object_copy(from, to)
       IN /\ ret' = ObjectReply("copy", caller, to, [from |-> from], r)
          /\ ObjectCommit(r)

rename(caller, from, to) ==
    LET e == from_to_checked(caller, from, to)
        r == IF e # "" THEN ObjErr(e) ELSE object_rename(from, to)
    IN /\ ret' = ObjectReply("rename", caller, to, [from |-> from], r)
       /\ ObjectCommit(r)

create_multipart(caller, path) ==
    /\ OBJECT_STATE.next_etag < MaxEtag
    /\ LET r == IF ~is_writer(caller) THEN ObjErr("PermissionDenied: no write permission")
                ELSE object_create_multipart(path)
       IN /\ ret' = ObjectReply("create_multipart", caller, path, None, r)
          /\ ObjectCommit(r)

put_part(caller, path, id, part_idx, payload) ==
    LET r == IF ~is_writer(caller) THEN ObjErr("PermissionDenied: no write permission")
             ELSE object_put_part(path, id, part_idx, payload)
    IN /\ ret' = ObjectReply("put_part", caller, path, None, r)
       /\ ObjectCommit(r)

complete_multipart(caller, path, id) ==
    LET r == IF ~is_writer(caller) THEN ObjErr("PermissionDenied: no write permission")
             ELSE object_complete_multipart(path, id)
    IN /\ ret' = ObjectReply("complete_multipart", caller, path, None, r)
       /\ ObjectCommit(r)

abort_multipart(caller, path, id) ==
    LET r == IF ~is_writer(caller) THEN ObjErr("PermissionDenied: no write permission")
             ELSE object_abort_multipart(path, id)
    IN /\ ret' = ObjectReply("abort_multipart", caller, path, None, r)
       /\ ObjectCommit(r)

\* queries: they read the tables and write nothing
get_opts(caller, path) ==
    LET r == IF ~is_reader(caller) THEN ObjErr("PermissionDenied: no read permission")
             ELSE object_get_opts(path)
    IN /\ ret' = ObjectReply("get_opts", caller, path, None, r)
       /\ UNCHANGED <<CoseVars, ObjectVars, WasmVars>>

head(caller, path) ==
    LET r == IF ~is_reader(caller) THEN ObjErr("PermissionDenied: no read permission")
             ELSE object_head(path)
    IN /\ ret' = ObjectReply("head", caller, path, None, r)
       /\ UNCHANGED <<CoseVars, ObjectVars, WasmVars>>

----------------------------------------------------------------------------
(* SpecObject: the manager p1 and the stranger p2 put, copy, rename and    *)
(* delete objects at two paths, upload one in parts, and read them back.   *)

ObjectCallers == {p1, p2}
ObjectPaths == {"x", "y"}
ObjectPayloads == {<<1>>, <<2>>}
ObjectParts == {<<3>>}
ObjectPutOptions ==
    {PutOptions("Overwrite", None, None), PutOptions("Create", None, None)}
    \cup {PutOptions("Update", Some(e), Some("v")) : e \in 0..(MaxEtag - 1)}

NextObject ==
    \/ \E c \in ObjectCallers : object_admin_add_managers(c, {p1})
    \/ \E c \in ObjectCallers, p \in ObjectPaths, b \in ObjectPayloads,
          o \in ObjectPutOptions :
          put_opts(c, p, b, o)
    \/ \E c \in ObjectCallers, p \in ObjectPaths : delete(c, p)
    \/ \E c \in ObjectCallers, f \in ObjectPaths, t \in ObjectPaths :
          copy(c, f, t)
    \/ \E c \in ObjectCallers, f \in ObjectPaths, t \in ObjectPaths : rename(c, f, t)
    \/ \E c \in ObjectCallers, p \in ObjectPaths :
          create_multipart(c, p)
    \/ \E c \in ObjectCallers, p \in ObjectPaths, id \in 0..(MaxEtag - 1),
          i \in 0..1, b \in ObjectParts : put_part(c, p, id, i, b)
    \/ \E c \in ObjectCallers, p \in ObjectPaths, id \in 0..(MaxEtag - 1) :
          complete_multipart(c, p, id)
    \/ \E c \in ObjectCallers, p \in ObjectPaths, id \in 0..(MaxEtag - 1) :
          abort_multipart(c, p, id)
    \/ \E c \in ObjectCallers, p \in ObjectPaths : get_opts(c, p)
    \/ \E c \in ObjectCallers, p \in ObjectPaths : head(c, p)

SpecObject == Init /\ [][NextObject]_vars

----------------------------------------------------------------------------
(* The wasm store: ic_wasm_canister.  A DeployLog is kept by its name; a   *)
(* call of deployment_logs is one message execution, taken one turn of its *)
(* loop at a time, during which no other message runs.                     *)

\* deployments the model logs
MaxLogs == 3

DeployLog(name) == [name |-> name]

DeploymentInfo(log) == [name |-> log.name]

\* StableLog::get
logs_get(logs, idx) == IF idx < Len(logs) THEN Some(logs[idx + 1]) ELSE None

WasmFrame == UNCHANGED <<CoseVars, ObjectVars>>

\* wasm::add_log, which every deployment of api_admin.rs ends with
add_log(log) ==
    /\ logs_call = None
    /\ Len(INSTALL_LOGS) < MaxLogs
    /\ INSTALL_LOGS' = Append(INSTALL_LOGS, log)
    /\ ret' = [op |-> "add_log", ok |-> TRUE, out |-> Len(INSTALL_LOGS)]
    /\ UNCHANGED logs_call
    /\ WasmFrame

DeploymentLogsReply(name, res) ==
    [op |-> "deployment_logs", name |-> name, ok |-> TRUE, out |-> res]

\* the endpoint and wasm::deployment_logs up to its loop: take defaults to
\* 10 and is at most 1000; the early returns, or idx and res initialised
deployment_logs(name, prev, take) ==
    LET take_n == Min(unwrap_or(take, 10), 1000)
        latest == Len(INSTALL_LOGS)
        prev_n == unwrap_or(prev, latest)
    IN /\ logs_call = None
       /\ IF latest = 0 \/ prev_n > latest \/ prev_n = 0
          THEN /\ ret' = DeploymentLogsReply(name, << >>)
               /\ UNCHANGED logs_call
          ELSE /\ logs_call' = Some([name |-> name, take |-> take_n,
                                     idx |-> Max(prev_n - 1, 0), res |-> << >>,
                                     pc |-> "while"])
               /\ UNCHANGED ret
       /\ UNCHANGED INSTALL_LOGS
       /\ WasmFrame

\* one step of `while let Some(log) = logs.get(idx)`: at the head of the
\* loop a log of another name goes to `continue`, which goes back to the
\* head with idx and res as they are; a log of the name is pushed, and the
\* loop ends at idx 0 or with take results, else idx goes down by one
deployment_logs_loop ==
    /\ logs_call # None
    /\ LET call == unwrap(logs_call)
           log == logs_get(INSTALL_LOGS, call.idx)
       IN IF call.pc = "continue"
          THEN /\ logs_call' = Some([call EXCEPT !.pc = "while"])
               /\ UNCHANGED ret
          ELSE IF ~is_some(log)
          THEN /\ ret' = DeploymentLogsReply(call.name, call.res)
               /\ logs_call' = None
          ELSE IF unwrap(log).name # call.name
          THEN /\ logs_call' = Some([call EXCEPT !.pc = "continue"])
               /\ UNCHANGED ret
          ELSE LET res == Append(call.res, DeploymentInfo(unwrap(log)))
               IN IF call.idx = 0 \/ Len(res) >= call.take
                  THEN /\ ret' = DeploymentLogsReply(call.name, res)
                       /\ logs_call' = None
                  ELSE /\ logs_call' = Some([call EXCEPT !.idx = @ - 1, !.res = res])
                       /\ UNCHANGED ret
    /\ UNCHANGED INSTALL_LOGS
    /\ WasmFrame

----------------------------------------------------------------------------
(* SpecLogs: deployments of two names are logged and the log is asked for  *)
(* from every position with every take; a call that has begun keeps taking *)
(* turns of its loop.                                                      *)

LogsNames == {"a", "b"}
LogsPrevs == {None} \cup {Some(n) : n \in 0..(MaxLogs + 1)}
LogsTakes == {None, Some(0), Some(1), Some(2)}

NextLogs ==
    \/ \E n \in LogsNames : add_log(DeployLog(n))
    \/ \E n \in LogsNames, prev \in LogsPrevs, take \in LogsTakes :
          deployment_logs(n, prev, take)
    \/ deployment_logs_loop

SpecLogs == Init /\ [][NextLogs]_vars /\ WF_vars(deployment_logs_loop)

----------------------------------------------------------------------------
(* Claims about the version and archive life of a setting (SpecSetting)    *)

SettingKeys == {path_key(p, c) : p \in SettingPaths, c \in SettingCallers}

stored(k) == contains_key(SETTINGS_STORE, v0(k))

writer(c, k) ==
    /\ contains_key(NAMESPACES_STORE, k[1])
    /\ can_write_setting(NAMESPACES_STORE[k[1]], c, k)

\* C1 (as claimed): each successful update_setting_payload leaves the stored
\* version strictly greater than before, and the stored version of a path
\* never decreases over any sequence of operations, so it is never below
\* the highest version the path has ever stored.
C1_Original ==
    \A k \in DOMAIN SETTINGS_STORE : SETTINGS_STORE[k].version >= seen_version[k]

\* C1 (amended): while a setting stays stored its version never decreases,
\* and each successful update_setting_payload raises it by exactly one
\* until it stands at u32::MAX, where it stays; a setting deleted and
\* created again starts over at version 1.
C1_VersionGrowsWhileStored ==
    [][\A k \in DOMAIN SETTINGS_STORE :
          /\ k \in DOMAIN SETTINGS_STORE' =>
                SETTINGS_STORE'[k].version >= SETTINGS_STORE[k].version
          /\ (ret'.op = "setting_update_payload" /\ ret'.ok /\ v0(ret'.spk) = k) =>
                /\ k \in DOMAIN SETTINGS_STORE'
                /\ SETTINGS_STORE'[k].version =
                      IF SETTINGS_STORE[k].version < U32_MAX
                      THEN SETTINGS_STORE[k].version + 1 ELSE U32_MAX
                /\ ret'.out.version = SETTINGS_STORE'[k].version]_vars

\* a successful update has just moved a setting to version 2 or later
C1_Witness ==
    /\ ret.op = "setting_update_payload" /\ ret.ok
    /\ stored(ret.spk) /\ SETTINGS_STORE[v0(ret.spk)].version >= 2

\* C2 (as claimed): update_setting_payload by a permitted writer on an
\* existing setting with a path version other than the stored one always
\* fails with the version-mismatch error and changes nothing.
C2_Original ==
    \A c \in SettingCallers, k \in SettingKeys, i \in SettingUpdateInputs :
        (writer(c, k) /\ stored(k) /\ SETTINGS_STORE[v0(k)].version # k[5]) =>
            LET r == update_setting_payload(c, k, i)
            IN /\ ~r.ok /\ r.err = "version mismatch"
               /\ r.ns = NAMESPACES_STORE /\ r.ss = SETTINGS_STORE
               /\ r.ps = PAYLOADS_STORE

\* C2 (amended): such an update always fails and changes neither the
\* setting, the archive nor payload_bytes_total; the error is the
\* version-mismatch error unless the supplied payload is longer than the
\* namespace's max_payload_size, which is checked first and reported instead.
C2_StaleUpdateFails ==
    \A c \in SettingCallers, k \in SettingKeys, i \in SettingUpdateInputs :
        (writer(c, k) /\ stored(k) /\ SETTINGS_STORE[v0(k)].version # k[5]) =>
            LET r == update_setting_payload(c, k, i)
                too_long == /\ is_some(i.payload)
                            /\ unwrap(i.payload).len >
                                   NAMESPACES_STORE[k[1]].max_payload_size
            IN /\ ~r.ok
               /\ r.err = IF too_long THEN "payload size exceeds the limit"
                          ELSE "version mismatch"
               /\ r.ns = NAMESPACES_STORE /\ r.ss = SETTINGS_STORE
               /\ r.ps = PAYLOADS_STORE

\* an update with a stale version has just been refused
C2_Witness ==
    /\ ret.op = "setting_update_payload" /\ ~ret.ok /\ ret.err = "version mismatch"
    /\ stored(ret.spk) /\ SETTINGS_STORE[v0(ret.spk)].version # ret.spk[5]

\* C3: once a setting has status 1, every later update_setting_payload and
\* update_setting_info on it fails (as do readers changes and delete), and
\* its payload, dek, version and status never change again.
C3_ReadOnlyIsFinal ==
    [][\A k \in DOMAIN SETTINGS_STORE :
          SETTINGS_STORE[k].status = 1 =>
             /\ k \in DOMAIN SETTINGS_STORE'
             /\ SETTINGS_STORE'[k].payload = SETTINGS_STORE[k].payload
             /\ SETTINGS_STORE'[k].dek = SETTINGS_STORE[k].dek
             /\ SETTINGS_STORE'[k].version = SETTINGS_STORE[k].version
             /\ SETTINGS_STORE'[k].status = 1
             /\ (/\ ret'.op \in {"setting_update_payload", "setting_update_info",
                                 "setting_add_readers", "setting_remove_readers",
                                 "setting_delete"}
                 /\ v0(ret'.spk) = k) => ~ret'.ok]_vars

\* an update carrying the right version has just been refused because the
\* setting is read-only
C3_Witness ==
    /\ ret.op \in {"setting_update_payload", "setting_update_info"}
    /\ ~ret.ok /\ ret.err = "readonly setting can not be updated"
    /\ stored(ret.spk) /\ SETTINGS_STORE[v0(ret.spk)].status = 1

\* C4 (as claimed): for a caller who can read an existing setting of current
\* version c, get_setting_archived_payload for version v succeeds exactly
\* when 0 < v < c, whatever calls produced the setting.
C4_Original ==
    \A c \in SettingCallers, k \in SettingKeys :
        is_some(try_get_setting(c, v0(k))) =>
            (get_setting_archived_payload(c, k).ok
                <=> (0 < k[5] /\ k[5] < SETTINGS_STORE[v0(k)].version))

\* C5: whenever get_setting_archived_payload(v) succeeds, the payload and dek
\* it returns are those the stored setting held while its version was v.
C5_ArchivedIsWhatWasLive ==
    /\ \A k \in DOMAIN SETTINGS_STORE :
          LET kv == at_version(k, SETTINGS_STORE[k].version)
          IN /\ kv \in DOMAIN live_at
             /\ live_at[kv].payload = SETTINGS_STORE[k].payload
             /\ live_at[kv].dek = SETTINGS_STORE[k].dek
    /\ \A c \in SettingCallers, k \in SettingKeys :
          LET r == get_setting_archived_payload(c, k)
          IN r.ok =>
                /\ k \in DOMAIN live_at
                /\ r.out.version = k[5]
                /\ r.out.payload = live_at[k].payload
                /\ r.out.dek = live_at[k].dek

\* an archived version has just been returned whose payload and dek both
\* differ from those of the stored setting
C5_Witness ==
    /\ ret.op = "setting_get_archived_payload" /\ ret.ok
    /\ ret.out.payload # SETTINGS_STORE[v0(ret.spk)].payload
    /\ ret.out.dek # SETTINGS_STORE[v0(ret.spk)].dek

----------------------------------------------------------------------------
(* Claims about the deletion of a namespace (SpecNs)                       *)

owns_settings(namespace) == \E k \in DOMAIN SETTINGS_STORE : k[1] = namespace

\* C6 (as claimed): delete_namespace by a caller allowed to write the
\* namespace fails with the not-empty error and removes nothing whenever a
\* row of the settings table has that namespace as its first key component,
\* whatever the row's scope, subject and key.
C6_Original ==
    \A c \in NsCallers, n \in NsNames :
        (/\ contains_key(NAMESPACES_STORE, n)
         /\ can_write_namespace(NAMESPACES_STORE[n], c)
         /\ owns_settings(n)) =>
            LET r == delete_namespace(c, n)
            IN /\ ~r.ok /\ r.err = "namespace is not empty"
               /\ r.ns = NAMESPACES_STORE /\ r.ss = SETTINGS_STORE
               /\ r.ps = PAYLOADS_STORE

----------------------------------------------------------------------------
(* Claims about who writes a setting (SpecWrite)                           *)

SettingWriteOps ==
    {"setting_create", "setting_update_payload", "setting_update_info",
     "setting_add_readers", "setting_remove_readers", "setting_delete"}

----------------------------------------------------------------------------
(* Claims about who reads a namespace and a setting (SpecRead)             *)

ReadKeys == {from_path(p, c) : p \in ReadPaths, c \in ReadCallers}

\* what C8 says of can_read_namespace
namespace_readable(ns, c) ==
    IF ns.visibility = 1 THEN TRUE
    ELSE IF ns.status = -1 THEN c \in ns.managers \cup ns.auditors
    ELSE c \in ns.managers \cup ns.auditors \cup ns.users

\* C8: can_read_namespace is true for every principal when the namespace is
\* public; when it is private and archived, exactly for managers and
\* auditors, users or not; when private and not archived, exactly for
\* managers, auditors and users.  namespace_get_info answers accordingly.
C8_NamespaceReaders ==
    \A n \in DOMAIN NAMESPACES_STORE :
        LET ns == NAMESPACES_STORE[n]
        IN /\ \A c \in ReadCallers \cup {ANONYMOUS} :
                 can_read_namespace(ns, c) <=> namespace_readable(ns, c)
           /\ (ret.op = "namespace_get_info" /\ ret.spk[1] = n) =>
                 (ret.ok <=> namespace_readable(ns, ret.caller))

\* a user of a private namespace has just been refused its info because the
\* namespace is archived
C8_Witness ==
    /\ ret.op = "namespace_get_info" /\ ~ret.ok
    /\ contains_key(NAMESPACES_STORE, ret.spk[1])
    /\ LET ns == NAMESPACES_STORE[ret.spk[1]]
       IN /\ ns.visibility = 0 /\ ns.status = -1
          /\ ret.caller \in ns.users

\* what C9 allows: managers and auditors, and while the namespace is not
\* archived the subject and the readers of the setting
setting_readable(ns, c, k) ==
    \/ c \in ns.managers \cup ns.auditors
    \/ /\ ns.status >= 0
       /\ \/ c = k[3]
          \/ stored(k) /\ c \in SETTINGS_STORE[v0(k)].readers

SettingReadOps == {"setting_get", "setting_get_info", "setting_get_archived_payload"}

\* C9: in a private namespace get_setting, get_setting_info and
\* get_setting_archived_payload succeed only for a manager or auditor of
\* the namespace or, while the namespace is not archived, for the setting's
\* subject or one of its readers; every other caller gets an error and no
\* setting data.
C9_PrivateSettingReaders ==
    \A n \in DOMAIN NAMESPACES_STORE :
        LET ns == NAMESPACES_STORE[n]
        IN ns.visibility = 0 =>
            /\ \A c \in ReadCallers \cup {ANONYMOUS}, k \in ReadKeys :
                  (k[1] = n /\ ~setting_readable(ns, c, k)) =>
                     /\ try_get_setting(c, k) = None
                     /\ \A r \in {get_setting(c, k), get_setting_info(c, k),
                                   get_setting_archived_payload(c, k)} :
                           ~r.ok /\ r.out = NoOut
            /\ (ret.op \in SettingReadOps /\ ret.spk[1] = n /\ ret.ok) =>
                  setting_readable(ns, ret.caller, ret.spk)

\* a principal that is neither manager, auditor nor subject has just been
\* given the setting of a private namespace as one of its readers
C9_Witness ==
    /\ ret.op = "setting_get" /\ ret.ok /\ is_some(ret.out.payload)
    /\ LET ns == NAMESPACES_STORE[ret.spk[1]]
       IN /\ ns.visibility = 0
          /\ ret.caller \notin ns.managers \cup ns.auditors
          /\ ret.caller # ret.spk[3]
          /\ ret.caller \in SETTINGS_STORE[v0(ret.spk)].readers

----------------------------------------------------------------------------
(* Claims about who is given a key (SpecKek)                               *)

KekKeys == {from_path(p, c) : p \in KekPaths, c \in KekCallers}

\* what C10 says of has_kek_permission
kek_claimed(ns, c, k) ==
    IF ns.status < 0 /\ c \notin ns.managers THEN FALSE
    ELSE c = k[3] \/ c \in ns.auditors \/ (k[2] = 0 /\ c \in ns.managers)

\* C10 (as claimed): has_kek_permission is false when the namespace is
\* archived and the caller is not a manager; otherwise it is true exactly
\* when the caller is the subject, or an auditor, or a manager at scope 0.
C10_Original ==
    \A c \in KekCallers, k \in KekKeys :
        contains_key(NAMESPACES_STORE, k[1]) =>
            (has_kek_permission(c, k) <=> kek_claimed(NAMESPACES_STORE[k[1]], c, k))

\* the same with the readers of the stored setting
kek_granted(ns, c, k) ==
    IF ns.status < 0 /\ c \notin ns.managers THEN FALSE
    ELSE \/ kek_claimed(ns, c, k)
         \/ stored(k) /\ c \in SETTINGS_STORE[v0(k)].readers

\* C10 (amended): has_kek_permission is false when the namespace is archived
\* and the caller is not a manager; otherwise it is true exactly when the
\* caller is the subject, or an auditor, or a manager at scope 0, or one of
\* the readers of the stored setting.  A key request is accepted only from
\* such a caller, and a key is delivered only to an accepted request.
C10_KekPermission ==
    [][/\ \A c \in KekCallers, k \in KekKeys :
             contains_key(NAMESPACES_STORE, k[1]) =>
                (has_kek_permission(c, k)
                    <=> kek_granted(NAMESPACES_STORE[k[1]], c, k))
       /\ \A q \in awaiting' \ awaiting :
             /\ contains_key(NAMESPACES_STORE, q.spk[1])
             /\ kek_granted(NAMESPACES_STORE[q.spk[1]], q.caller, q.spk)
       /\ (awaiting' \subseteq awaiting /\ ret'.op \in KekOps /\ ret'.ok) =>
             Awaiting(ret'.op, ret'.caller, ret'.spk) \in awaiting \ awaiting']_vars

\* a key has just been delivered to a principal that is neither the subject,
\* an auditor nor a manager, but one of the readers of the stored setting
C10_Witness ==
    /\ ret.op \in KekOps /\ ret.ok
    /\ contains_key(NAMESPACES_STORE, ret.spk[1])
    /\ ~kek_claimed(NAMESPACES_STORE[ret.spk[1]], ret.caller, ret.spk)
    /\ stored(ret.spk) /\ ret.caller \in SETTINGS_STORE[v0(ret.spk)].readers


----------------------------------------------------------------------------
(* Claims about requests suspended at an await (SpecUpdate)                *)

\* the request q of awaiting is the one this step resumes
resumed(q) == q \notin awaiting' /\ Cardinality(awaiting') < Cardinality(awaiting)

C13_Original ==
    [][/\ Cardinality(awaiting') > Cardinality(awaiting)
          => /\ SETTINGS_STORE' = SETTINGS_STORE
             /\ PAYLOADS_STORE' = PAYLOADS_STORE
       /\ \A q \in awaiting :
             (resumed(q) /\ ~ret'.ok)
             => /\ SETTINGS_STORE' = SETTINGS_STORE
                /\ PAYLOADS_STORE' = PAYLOADS_STORE]_vars


----------------------------------------------------------------------------
(* Claims about failed calls (SpecSetting)                                 *)

C14_CreateOnlyOnce ==
    [][ret'.op = "setting_create" =>
          /\ ret'.ok =>
                /\ ret'.spk[5] = 0
                /\ ~stored(v0(ret'.spk))
                /\ contains_key(SETTINGS_STORE', v0(ret'.spk))
                /\ SETTINGS_STORE'[v0(ret'.spk)].version = 1
                /\ DOMAIN SETTINGS_STORE' = DOMAIN SETTINGS_STORE \cup {v0(ret'.spk)}
          /\ stored(v0(ret'.spk)) =>
                /\ ~ret'.ok
                /\ SETTINGS_STORE' = SETTINGS_STORE
                /\ PAYLOADS_STORE' = PAYLOADS_STORE
                /\ NAMESPACES_STORE' = NAMESPACES_STORE]_vars

\* a create refused on a path whose setting has been updated and archived
C14_Witness ==
    /\ ret.op = "setting_create"
    /\ ~ret.ok
    /\ ret.spk[5] = 0
    /\ ret.err = "setting already exists"
    /\ stored(v0(ret.spk))
    /\ SETTINGS_STORE[v0(ret.spk)].version = 2
    /\ contains_key(PAYLOADS_STORE, at_version(ret.spk, 1))


----------------------------------------------------------------------------
(* Claims about reading older versions (SpecRead)                          *)

\* the last call asked, with read permission, for a version of a stored
\* setting that lies strictly between 0 and the stored version
asked_older_version(op) ==
    /\ ret.op = op
    /\ stored(v0(ret.spk))
    /\ LET ns == NAMESPACES_STORE[ret.spk[1]]
       IN ns.visibility = 1 \/ setting_readable(ns, ret.caller, ret.spk)
    /\ 0 < ret.spk[5]
    /\ ret.spk[5] < SETTINGS_STORE[v0(ret.spk)].version

\* C15: for a caller with read permission, a get of a setting with a
\* requested version strictly between 0 and the stored version returns the
\* payload archived for that version.
C15_Original ==
    asked_older_version("setting_get") =>
        /\ ret.ok
        /\ contains_key(PAYLOADS_STORE, ret.spk)
        /\ ret.out.payload = PAYLOADS_STORE[ret.spk].payload

\* C15 as amended: such a get fails with version mismatch and returns no
\* payload; the archived payload of that version is what
\* get_setting_archived_payload returns when it succeeds.
C15_GetOlderVersionFails ==
    /\ asked_older_version("setting_get") =>
          /\ ~ret.ok
          /\ ret.err = "version mismatch"
          /\ ret.out = NoOut
    /\ (asked_older_version("setting_get_archived_payload") /\ ret.ok) =>
          /\ contains_key(PAYLOADS_STORE, ret.spk)
          /\ ret.out = Out(ret.spk[5], PAYLOADS_STORE[ret.spk].payload,
                           PAYLOADS_STORE[ret.spk].dek)

\* a reader has just asked setting_get for version 1 of a setting stored at
\* version 2 whose version 1 is in the archive
C15_Witness ==
    /\ asked_older_version("setting_get")
    /\ contains_key(PAYLOADS_STORE, ret.spk)
    /\ ~ret.ok


----------------------------------------------------------------------------
(* Claims about an archived setting and the archive table (SpecSetting)    *)

\* C16: a setting whose own status is -1 (archived) rejects every further
\* update_setting_payload, while the managers and auditors of its namespace
\* can still read it.
C16_Original ==
    [][\A k \in SettingKeys :
          (stored(k) /\ SETTINGS_STORE[v0(k)].status = -1) =>
             /\ (ret'.op = "setting_update_payload" /\ v0(ret'.spk) = v0(k)) =>
                   /\ ~ret'.ok
                   /\ SETTINGS_STORE' = SETTINGS_STORE
                   /\ PAYLOADS_STORE' = PAYLOADS_STORE
             /\ \A c \in NAMESPACES_STORE[k[1]].managers
                         \cup NAMESPACES_STORE[k[1]].auditors :
                   try_get_setting(c, v0(k)) # None]_vars


\* C17: once an archived record has been written for a setting path and
\* version, no later operation overwrites it with different content or
\* removes it.
C17_Original ==
    [][\A kv \in DOMAIN PAYLOADS_STORE :
          /\ kv \in DOMAIN PAYLOADS_STORE'
          /\ PAYLOADS_STORE'[kv] = PAYLOADS_STORE[kv]]_vars

\* C17 as amended: a record of the archive is removed only by a successful
\* delete of its setting, and is overwritten only by a successful update
\* at the version u32::MAX, where the version has stopped growing.
C17_ArchiveKeptWhileStored ==
    [][\A kv \in DOMAIN PAYLOADS_STORE :
          /\ kv \notin DOMAIN PAYLOADS_STORE' =>
                /\ ret'.op = "setting_delete" /\ ret'.ok
                /\ v0(ret'.spk) = v0(kv)
                /\ kv[5] < ret'.spk[5]
          /\ (kv \in DOMAIN PAYLOADS_STORE' /\ PAYLOADS_STORE'[kv] # PAYLOADS_STORE[kv]) =>
                /\ ret'.op = "setting_update_payload" /\ ret'.ok
                /\ ret'.spk = kv
                /\ kv[5] = U32_MAX]_vars

\* the record archived for version 1 is still there after the setting was
\* updated once more
C17_Witness ==
    /\ ret.op = "setting_update_payload" /\ ret.ok
    /\ ret.spk[5] = 2
    /\ contains_key(PAYLOADS_STORE, at_version(ret.spk, 1))
    /\ contains_key(PAYLOADS_STORE, at_version(ret.spk, 2))
    /\ PAYLOADS_STORE[at_version(ret.spk, 1)] # PAYLOADS_STORE[at_version(ret.spk, 2)]


----------------------------------------------------------------------------
(* Claims about creating and administering a namespace (SpecMembers)       *)

NamespaceWriteOps ==
    {"namespace_update_info", "namespace_delete", "namespace_add_managers",
     "namespace_remove_managers", "namespace_add_auditors",
     "namespace_remove_auditors", "namespace_add_users", "namespace_remove_users",
     "namespace_add_delegator", "namespace_remove_delegator"}

\* the errors that refuse a caller, as a principal or as the anonymous one
PermissionErrors == {"no permission", "anonymous user is not allowed"}

C20_Original ==
    \A n \in DOMAIN NAMESPACES_STORE :
        /\ ANONYMOUS \notin NAMESPACES_STORE[n].managers
        /\ ANONYMOUS \notin NAMESPACES_STORE[n].auditors
        /\ ANONYMOUS \notin NAMESPACES_STORE[n].users


----------------------------------------------------------------------------
(* Claims about the delegations of a fixed identity (SpecIdentity)         *)

\* the caller is a delegator of the name and delegation is enabled
may_sign(caller, input) ==
    /\ contains_key(NAMESPACES_STORE, input.ns)
    /\ contains_key(NAMESPACES_STORE[input.ns].fixed_id_names,
                    to_ascii_lowercase(input.name))
    /\ caller \in NAMESPACES_STORE[input.ns].fixed_id_names[to_ascii_lowercase(input.name)]
    /\ NAMESPACES_STORE[input.ns].session_expires_in_ms # 0

\* C21: namespace_sign_delegation adds a canister-signature entry only if,
\* at the time of the call, the caller is in fixed_id_names[name] of the
\* namespace and the namespace's session_expires_in_ms is not 0; in every
\* other case it returns an error and the signature map is unchanged.
C21_SignOnlyForDelegators ==
    [][ret'.op = "namespace_sign_delegation" =>
          /\ (ret'.ok \/ SIGNATURES' \ SIGNATURES # {}) =>
                may_sign(ret'.caller, ret'.input)
          /\ ~may_sign(ret'.caller, ret'.input) =>
                /\ ~ret'.ok
                /\ SIGNATURES' = SIGNATURES
          /\ ret'.ok =>
                [seed |-> identity_seed(ret'.input.ns,
                                        to_ascii_lowercase(ret'.input.name)),
                 message |-> delegation_signature_msg(ret'.input.pubkey,
                                                      ret'.out.expiration)]
                   \in SIGNATURES']_vars

\* a manager who is not a delegator has just been refused while the map
\* holds a signature made for the delegator
C21_Witness ==
    /\ ret.op = "namespace_sign_delegation"
    /\ ~ret.ok
    /\ ret.err = "caller is not a delegator"
    /\ ret.caller \in NAMESPACES_STORE[ret.input.ns].managers
    /\ SIGNATURES # {}

\* C22: get_delegation never modifies any state, and it returns a signed
\* delegation for (seed, pubkey, expiration) only if an earlier
\* namespace_sign_delegation added a signature for exactly that seed,
\* pubkey and expiration; repeating the call with no intervening update
\* returns the same result.
C22_GetDelegationReadsOnly ==
    [][ret'.op = "get_delegation" =>
          /\ UNCHANGED <<state, NAMESPACES_STORE, SETTINGS_STORE, PAYLOADS_STORE,
                         SIGNATURES, awaiting>>
          /\ ret'.ok => ret'.input \in signed
          /\ (ret.op = "get_delegation" /\ ret.input = ret'.input) =>
                (ret'.ok = ret.ok /\ ret'.out = ret.out)]_vars

\* a delegation has just been returned while another one, of the same seed
\* and another session key, is signed too
C22_Witness ==
    /\ ret.op = "get_delegation"
    /\ ret.ok
    /\ \E e \in signed : e.seed = ret.input.seed /\ e.pubkey # ret.input.pubkey


----------------------------------------------------------------------------
(* Claims about COSE_Encrypt0 (SpecCose)                                   *)

\* C23: for all plaintexts m, keys k, AAD values and nonces n,
\* cose_decrypt0(cose_encrypt0(m, k, aad, n), k, aad) returns m; decrypting
\* the same item under a different AAD, a different key, or with any
\* ciphertext byte altered returns an error and no plaintext.
C23_RoundTrip ==
    ret.op = "cose_decrypt0" =>
        LET same == ret.secret = ret.sealed.secret /\ ret.aad = ret.sealed.aad
        IN /\ (~ret.altered /\ same) =>
                 (ret.ok /\ ret.out = Some(ret.sealed.payload))
           /\ (~ret.altered /\ ~same) => (~ret.ok /\ ret.out = None)
           /\ (ret.altered /\ same) => (~ret.ok /\ ret.out = None)

\* an item of two bytes sealed under one AAD has just been refused under
\* the other AAD and the right key
C23_Witness ==
    /\ ret.op = "cose_decrypt0"
    /\ ~ret.ok
    /\ ~ret.altered
    /\ ret.secret = ret.sealed.secret
    /\ ret.aad # ret.sealed.aad
    /\ Len(ret.sealed.payload) = MaxPlainLen


----------------------------------------------------------------------------
(* Claims about the ECDH key delivery (SpecEcdh, SpecKek)                  *)

\* C24: in one ecdh_cose_encrypted_key round the shared secret the server
\* computes from its ephemeral secret and the client's public key equals the
\* shared secret the client computes from its own secret and the server's
\* returned public key, so the client can always decrypt the returned
\* payload.
C24_SharedSecretAgrees ==
    (ret.op = "ecdh_cose_encrypted_key" /\ ret.ok) =>
        /\ ecdh_x25519(ret.input.client_secret, ret.out.public_key).shared_secret
              = ret.shared_secret
        /\ is_some(client_unwrap(ret.input, ret.spk[3], ret.out))

\* the second client has just been sent a key at version 1 of a path
C24_Witness ==
    /\ ret.op = "ecdh_cose_encrypted_key"
    /\ ret.ok
    /\ ret.input.client_secret = 2
    /\ ret.spk[5] = 1

\* C25: two ecdh_cose_encrypted_key requests for the same setting path
\* (namespace, scope, subject, key), made at different times with different
\* client ephemeral keys and different nonces, unwrap to the same KEK: the
\* KEK depends only on the path and the canister's fixed key material,
\* which never changes after initialization.
C25_SameKekPerPath ==
    [][/\ \A a \in unwrapped', b \in unwrapped' :
             a.path = b.path => (is_some(a.kek) /\ a.kek = b.kek)
       /\ is_some(state.schnorr_secp256k1_public_key) =>
             /\ state'.schnorr_secp256k1_public_key = state.schnorr_secp256k1_public_key
             /\ state'.init_vector = state.init_vector]_vars

\* two clients with different keys and nonces have unwrapped the key of
\* one path, and the canister has just been upgraded
C25_Witness ==
    /\ ret.op = "post_upgrade"
    /\ \E a \in unwrapped, b \in unwrapped :
          /\ a.path = b.path
          /\ a.ecdh.client_secret # b.ecdh.client_secret
          /\ a.ecdh.nonce # b.ecdh.nonce

\* C28: if the caller's KEK permission for a path is revoked (removed from
\* readers or auditors, or the namespace archived) while its
\* ecdh_cose_encrypted_key call is suspended awaiting randomness, the call
\* does not return the wrapped KEK: key material is released only to a
\* caller that holds KEK permission when the response is produced.
C28_Original ==
    [][(ret'.op = "ecdh_cose_encrypted_key" /\ ret'.ok /\ awaiting' # awaiting) =>
          has_kek_permission(ret'.caller, ret'.spk)]_vars


----------------------------------------------------------------------------
(* Claims about the encoding of stored deks and payloads (SpecSetting)     *)

\* C27 (as claimed): in every reachable state, each stored setting that has
\* a dek has a dek that parses as a well-formed COSE_Encrypt0 and, if it has
\* a payload, a payload that parses as a well-formed COSE_Encrypt0, after
\* any sequence of create_setting and update_setting_payload calls
\* (including updates that supply only a dek or only a payload).
C27_Original ==
    \A k \in DOMAIN SETTINGS_STORE :
        LET setting == SETTINGS_STORE[k]
        IN is_some(setting.dek) =>
              /\ try_decode_encrypt0(unwrap(setting.dek))
              /\ is_some(setting.payload) =>
                    try_decode_encrypt0(unwrap(setting.payload))

----------------------------------------------------------------------------
(* Claims about the deletion of an empty namespace (SpecNs)                *)

\* C29 (as claimed): delete_namespace called by a manager of a namespace
\* with status below 1 that owns no settings succeeds and removes the
\* namespace, regardless of which settings exist in other namespaces.
C29_Original ==
    \A c \in NsCallers, n \in NsNames :
        (/\ contains_key(NAMESPACES_STORE, n)
         /\ NAMESPACES_STORE[n].status < 1
         /\ c \in NAMESPACES_STORE[n].managers
         /\ ~owns_settings(n)) =>
            LET r == delete_namespace(c, n)
            IN /\ r.ok
               /\ r.ns = remove(NAMESPACES_STORE, n)


----------------------------------------------------------------------------
(* Claims about the listing of setting keys (SpecList)                     *)

\* the (subject, key) pairs of the stored settings of a namespace and
\* scope, of one subject when one is given, in ascending order
listed_settings(namespace, user_owned, subject) ==
    LET keys == in_key_order(
                   {k \in DOMAIN SETTINGS_STORE :
                       /\ k[1] = namespace
                       /\ k[2] = (IF user_owned THEN 1 ELSE 0)
                       /\ is_some(subject) => k[3] = unwrap(subject)})
    IN [i \in 1..Len(keys) |-> <<keys[i][3], keys[i][4]>>]

\* C26 (as claimed): list_setting_keys(namespace, user_owned, subject)
\* returns, in ascending (subject, key) order, exactly the (subject, key)
\* pairs of the stored settings whose namespace equals the argument, whose
\* scope equals user_owned and (when a subject is given) whose subject
\* equals it: no stored setting of that namespace/scope/subject is omitted
\* and no setting of another namespace, scope or subject is included, for
\* all subjects and all keys up to 64 bytes.
C26_Original ==
    \A n \in ListNames, u \in BOOLEAN, s \in ListSubjects :
        list_setting_keys(n, u, s) = listed_settings(n, u, s)


----------------------------------------------------------------------------
(* Claims about a read-only namespace (SpecReadOnly)                       *)

\* C30: namespace status 1 (read-only) is absorbing: once a namespace has
\* status 1, no sequence of operations by any principal changes its status,
\* visibility, description, limits, member sets or delegators, or deletes
\* it (only gas_balance and updated_at can still change through top-up).
C30_ReadOnlyIsAbsorbing ==
    [][\A n \in DOMAIN NAMESPACES_STORE :
          NAMESPACES_STORE[n].status = 1 =>
             /\ n \in DOMAIN NAMESPACES_STORE'
             /\ [NAMESPACES_STORE'[n] EXCEPT !.gas_balance = NAMESPACES_STORE[n].gas_balance]
                   = NAMESPACES_STORE[n]
             /\ NAMESPACES_STORE'[n].gas_balance # NAMESPACES_STORE[n].gas_balance =>
                   ret'.op = "namespace_top_up"]_vars

\* a principal who is no manager has just topped up a read-only namespace
\* whose balance was not at its maximum
C30_Witness ==
    /\ ret.op = "namespace_top_up"
    /\ ret.ok
    /\ contains_key(NAMESPACES_STORE, ret.spk[1])
    /\ NAMESPACES_STORE[ret.spk[1]].status = 1
    /\ ret.caller \notin NAMESPACES_STORE[ret.spk[1]].managers
    /\ NAMESPACES_STORE[ret.spk[1]].gas_balance = MIN_CYCLES


----------------------------------------------------------------------------
(* Claims about the managers of a namespace (SpecManagers)                 *)

\* C31 (as claimed): in every reachable state, every namespace has at least
\* one manager: no sequence of namespace_remove_managers calls (including a
\* manager removing itself) leaves a namespace with an empty managers set.
C31_Original ==
    \A n \in DOMAIN NAMESPACES_STORE : NAMESPACES_STORE[n].managers # {}


----------------------------------------------------------------------------
(* Claims about the settings of a namespace that is not open (SpecFrozen)  *)

\* C32: no create_setting, update_setting_payload, update_setting_info,
\* readers change or delete_setting succeeds while the parent namespace's
\* status is not 0 (archived or read-only), for any caller including
\* managers and the subject; such a call leaves the settings and the
\* archive as they are.
C32_NoWriteUnlessOpen ==
    [][ret'.op \in SettingWriteOps =>
          /\ ret'.ok =>
                /\ contains_key(NAMESPACES_STORE, ret'.spk[1])
                /\ NAMESPACES_STORE[ret'.spk[1]].status = 0
          /\ (/\ contains_key(NAMESPACES_STORE, ret'.spk[1])
              /\ NAMESPACES_STORE[ret'.spk[1]].status # 0) =>
                /\ ~ret'.ok
                /\ SETTINGS_STORE' = SETTINGS_STORE
                /\ PAYLOADS_STORE' = PAYLOADS_STORE]_vars

\* the manager has just been refused the delete, at the right version, of a
\* stored server-owned setting of an archived namespace
C32_Witness ==
    /\ ret.op = "setting_delete"
    /\ ~ret.ok
    /\ ret.err = "no permission"
    /\ contains_key(NAMESPACES_STORE, ret.spk[1])
    /\ NAMESPACES_STORE[ret.spk[1]].status = -1
    /\ ret.caller \in NAMESPACES_STORE[ret.spk[1]].managers
    /\ ret.spk[2] = 0
    /\ contains_key(SETTINGS_STORE, v0(ret.spk))
    /\ SETTINGS_STORE[v0(ret.spk)].version = ret.spk[5]


----------------------------------------------------------------------------
(* Claims about the archive and the live settings (SpecSetting)            *)

\* C33 (as claimed): in every reachable state, every record in the archive
\* table with key (path, v) has a live setting at the same path with stored
\* version strictly greater than v and v >= 1; in particular, after
\* delete_setting no archived record of that path remains.
C33_Original ==
    \A kv \in DOMAIN PAYLOADS_STORE :
        /\ kv[5] >= 1
        /\ contains_key(SETTINGS_STORE, v0(kv))
        /\ SETTINGS_STORE[v0(kv)].version > kv[5]

\* C33 as amended: every archived record has v >= 1; a record with v below
\* u32::MAX has a live setting at its path with stored version strictly
\* greater than v, so that after delete_setting no record of the path below
\* u32::MAX remains; a record at u32::MAX, written by an update at the
\* version that no longer grows, can outlive its setting but is returned to
\* no caller, so a setting re-created at the path exposes no payload of its
\* previous incarnation.
C33_ArchiveHasLiveSetting ==
    \A kv \in DOMAIN PAYLOADS_STORE :
        /\ kv[5] >= 1
        /\ kv[5] < U32_MAX =>
              /\ contains_key(SETTINGS_STORE, v0(kv))
              /\ SETTINGS_STORE[v0(kv)].version > kv[5]
        /\ kv[5] = U32_MAX =>
              \A c \in SettingCallers : ~get_setting_archived_payload(c, kv).ok

\* a setting has just been created again at a path that had reached version
\* 2 before it was deleted, and no record below u32::MAX of the path is left
C33_Witness ==
    /\ ret.op = "setting_create"
    /\ ret.ok
    /\ seen_version[v0(ret.spk)] >= 2
    /\ SETTINGS_STORE[v0(ret.spk)].version = 1
    /\ \A kv \in DOMAIN PAYLOADS_STORE : v0(kv) = v0(ret.spk) => kv[5] = U32_MAX


----------------------------------------------------------------------------
(* Claims about payload_bytes_total (SpecSetting)                          *)

\* the byte length of the payload and of the dek an input supplies
supplied_bytes(input) ==
    (IF is_some(input.payload) THEN unwrap(input.payload).len ELSE 0)
    + (IF is_some(input.dek) THEN unwrap(input.dek).len ELSE 0)

\* the namespaces of r are those stored, n with total bytes added
adds_bytes(r, n, bytes) ==
    r.ns = [NAMESPACES_STORE EXCEPT
               ![n].payload_bytes_total = Min(@ + bytes, U64_MAX)]

\* C34: a namespace's payload_bytes_total never decreases: each successful
\* create_setting or update_setting_payload adds exactly the byte length of
\* the supplied payload plus supplied dek (saturating at the u64 maximum),
\* and failed operations, update_setting_info, readers changes and
\* delete_setting leave it unchanged.
C34_PayloadBytesTotal ==
    \A c \in SettingCallers, k \in SettingKeys :
       /\ \A i \in SettingCreateInputs :
             LET r == create_setting(c, k, i)
             IN IF r.ok THEN adds_bytes(r, k[1], supplied_bytes(i))
                ELSE r.ns = NAMESPACES_STORE
       /\ \A i \in SettingUpdateInputs :
             LET r == update_setting_payload(c, k, i)
             IN IF r.ok THEN adds_bytes(r, k[1], supplied_bytes(i))
                ELSE r.ns = NAMESPACES_STORE
       /\ \A i \in SettingInfoInputs :
             update_setting_info(c, k, i).ns = NAMESPACES_STORE
       /\ add_readers(c, k, {p2}).ns = NAMESPACES_STORE
       /\ remove_readers(c, k, {p2}).ns = NAMESPACES_STORE
       /\ delete_setting(c, k).ns = NAMESPACES_STORE

\* the only setting of a namespace has just been deleted and the bytes it
\* was created with are still counted
C34_Witness ==
    /\ ret.op = "setting_delete"
    /\ ret.ok
    /\ SETTINGS_STORE = << >>
    /\ NAMESPACES_STORE[ret.spk[1]].payload_bytes_total = 2


----------------------------------------------------------------------------
(* Claims about the metadata writes of a setting (SpecSetting)             *)

SettingInfoOps ==
    {"setting_update_info", "setting_add_readers", "setting_remove_readers"}

----------------------------------------------------------------------------
(* Claims about the expiration of a delegation (SpecExpiry)                *)

\* C36: for every non-zero session_expires_in_ms that update_namespace_info
\* or create_namespace accepts (any u64), namespace_sign_delegation returns
\* an expiration equal to (now_ms + session_expires_in_ms) converted to
\* nanoseconds with no 64-bit wrap-around, hence strictly later than the
\* current time.
C36_Original ==
    [][(/\ ret'.op = "namespace_sign_delegation"
        /\ sign_delegation_checked(ret'.caller, ret'.input, 1).ok) =>
          /\ ret'.ok
          /\ \E now_ms \in ExpiryTimes :
                LET se == NAMESPACES_STORE[ret'.input.ns].session_expires_in_ms
                IN /\ ret'.out.expiration % MILLISECONDS = 0
                   /\ ret'.out.expiration \div MILLISECONDS = now_ms + se
                   /\ ret'.out.expiration > now_ms * MILLISECONDS]_vars


----------------------------------------------------------------------------
(* Claims about the length of the iv (SpecIv)                              *)

\* C37: cose_decrypt0 returns an error, and no plaintext, for every
\* COSE_Encrypt0 item whose unprotected IV is not exactly 12 bytes long,
\* both shorter and longer.
C37_Original ==
    (ret.op = "cose_decrypt0" /\ ret.item.iv.len # 12) =>
        ~ret.ok /\ ret.out = None


----------------------------------------------------------------------------
(* Claims about who is given which keys of a private namespace (SpecRoles) *)

\* the subjects of the keys a listing returned
listed_subjects == {ret.out.keys[i][1] : i \in 1..Len(ret.out.keys)}

\* C38: in a private namespace, namespace_list_setting_keys returns keys of
\* arbitrary subjects only to managers and auditors; a caller whose only
\* role is user, while the namespace is not archived, receives only keys
\* whose subject is the caller; a caller with no role, or a user in an
\* archived namespace, receives an error.
C38_ListingFollowsRole ==
    (/\ ret.op = "namespace_list_setting_keys"
     /\ contains_key(NAMESPACES_STORE, ret.spk[1])
     /\ NAMESPACES_STORE[ret.spk[1]].visibility = 0) =>
        LET ns == NAMESPACES_STORE[ret.spk[1]]
            full == ret.caller \in ns.managers \/ ret.caller \in ns.auditors
        IN /\ (ret.ok /\ listed_subjects \ {ret.caller} # {}) => full
           /\ (~full /\ ret.caller \in ns.users /\ ns.status >= 0 /\ ret.ok) =>
                 listed_subjects \subseteq {ret.caller}
           /\ (~full /\ (ret.caller \notin ns.users \/ ns.status < 0)) => ~ret.ok

\* the user p2 has listed the server-owned keys of a private open namespace
\* that holds one of p3 too, and has been given its own
C38_Witness ==
    /\ ret.op = "namespace_list_setting_keys"
    /\ ret.ok
    /\ ret.caller = p2
    /\ ~ret.user_owned
    /\ contains_key(NAMESPACES_STORE, "a")
    /\ NAMESPACES_STORE["a"].visibility = 0
    /\ p2 \notin NAMESPACES_STORE["a"].managers \cup NAMESPACES_STORE["a"].auditors
    /\ contains_key(SETTINGS_STORE, SettingPathKey("a", 0, p3, key1, 0))
    /\ ret.out.keys = <<<<p2, key1>>>>


----------------------------------------------------------------------------
(* Claims about reading back what was written (SpecObject)                 *)

\* the step wrote, copied or moved an object to ret'.path with success
wrote_to_path ==
    /\ ret'.ok
    /\ \/ ret'.op = "put_opts" /\ ret'.arg.mode = "Overwrite"
       \/ ret'.op \in {"copy", "rename"}

\* the bytes of the object the step wrote, or of the source object as it
\* was before the step
written_bytes ==
    IF ret'.op = "put_opts" THEN ret'.arg.payload
    ELSE OBJECT_DATA[OBJECT_STATE.locations[ret'.arg.from][1]]

\* C39: in the object store, after a successful put_opts in Overwrite mode,
\* copy or rename to a destination path, get_opts and head on that path
\* succeed and return the object just written, copied or moved, including
\* when the destination path previously held a multipart upload that was
\* created but not completed.
C39_Original ==
    [][\A path \in ObjectPaths :
          (wrote_to_path /\ ret'.path = path) =>
             /\ object_get_opts(path)'.ok
             /\ unwrap(object_get_opts(path)'.out).payload = written_bytes
             /\ object_head(path)'.ok
             /\ unwrap(object_head(path)'.out).meta.size = Len(written_bytes)]_vars


----------------------------------------------------------------------------
(* Claims about the end of deployment_logs (SpecLogs)                      *)

\* C40: in the wasm-distribution store, deployment_logs(name, prev, take)
\* terminates and returns for every content of the deployment log,
\* including when the log holds entries whose name differs from the
\* requested name.
C40_Original == (logs_call # None) ~> (logs_call = None)

====
